---- MODULE Spec2Model ----
(***************************************************************************)
(* A model of the scoring and portfolio-partitioning engine of             *)
(* quant-screener-pro.                                                     *)
(*                                                                         *)
(* Numbers are exact scaled integers: ratios such as Hurst_Exponent,       *)
(* Margin_of_Safety, Top10_Institutional_Pct, Altman_Z_Score and           *)
(* Beneish_M_Score are held in hundredths (0.52 is 52, 2.99 is 299),       *)
(* Kelly percentages in tenths of a percent (20.3 % is 203).  A missing    *)
(* value (NaN) is the value NaN below.  A percentile rank over n rows is   *)
(* held as its numerator over the denominator 2n (the average rank         *)
(* doubled), so that tie-averaged ranks stay integers.                     *)
(***************************************************************************)
EXTENDS Integers, FiniteSets, Sequences, TLC

VARIABLES
    pc,           \* position inside the operation being run
    df,           \* the combined, pool-tagged table given to build_portfolios:
                  \* a sequence of rows, a row's position being its index label
    short_term,   \* index labels of the rows of the "Court Terme" bucket
    medium_term,  \* index labels of the rows of the "Moyen Terme" bucket
    long_term,    \* index labels of the rows of the "Long Terme" bucket
    mt_tier,      \* index of the tuple at which the medium loop stopped
    lt_tier,      \* index of the tuple at which the long loop stopped
    kelly,        \* Kelly_Position_Pct of every bucket row, in tenths
    call,         \* arguments of the pure function under evaluation
    ret           \* its result

vars == <<pc, df, short_term, medium_term, long_term, mt_tier, lt_tier,
          kelly, call, ret>>

\* np.nan
NaN == -1000000

\* a value not yet computed
None == "None"

(***************************************************************************)
(* Bounds of the explored inputs.                                          *)
(***************************************************************************)
MaxTickers == 6

MaxGraded == 5

MaxUniverse == 3

(***************************************************************************)
(* Elementary float / pandas semantics.                                    *)
(***************************************************************************)
isna(v) == v = NaN

fillna(v, d) == IF isna(v) THEN d ELSE v

\* a comparison with NaN is False
gt(a, b) == ~isna(a) /\ ~isna(b) /\ a > b

Min(S) == CHOOSE x \in S : \A y \in S : x <= y

RECURSIVE SumSeq(_)
SumSeq(q) ==
    IF Len(q) = 0 THEN 0
    ELSE IF Len(q) = 1 THEN q[1]
    ELSE LET half == Len(q) \div 2
         IN  SumSeq(SubSeq(q, 1, half)) + SumSeq(SubSeq(q, half + 1, Len(q)))

\* round half to even of num/den (den > 0), as Python's round and numpy's around
RoundHalfEven(num, den) ==
    LET q == num \div den
        r == num - q * den
    IN  IF 2 * r < den THEN q
        ELSE IF 2 * r > den THEN q + 1
        ELSE IF q % 2 = 0 THEN q ELSE q + 1

\* Series.clip(lo, hi) on one value
clip(v, lo, hi) == IF v < lo THEN lo ELSE IF v > hi THEN hi ELSE v

(***************************************************************************)
(* The table.  A row is a record over Fields; the data columns the         *)
(* modelled table carries are Columns.  The code probes every optional     *)
(* column for existence and the model keeps each probe.                    *)
(***************************************************************************)
Columns == {"ticker", "_pool", "Relative_Volume", "Narrative_Score",
            "Hurst_Exponent", "Last_Price", "SMA_200",
            "Top10_Institutional_Pct", "Quant_Risk_Score",
            "Margin_of_Safety", "Deep_Value_Score", "Piotroski_F_Score",
            "Altman_Z_Score", "Beneish_M_Score"}

Pools == {"court", "moyen", "long"}

\* d[col].tolist() over the rows labelled by rows
tolist(d, rows) == {d[i].ticker : i \in rows}

\* a function with every value computed once
Stored(f) == f @@ <<>>

(***************************************************************************)
(* Series.rank(pct=True, na_option="bottom"): ascending average ranks,     *)
(* NaN ranked after every number (pandas: "bottom: assign highest rank to  *)
(* NaN values"), divided by the number of rows.  Rank2 is twice the        *)
(* average rank, i.e. the numerator of the percentile over 2n.             *)
(***************************************************************************)
RankBefore(a, b) == ~isna(a) /\ (isna(b) \/ a < b)

Rank2(d, rows, col, i) ==
    2 * Cardinality({j \in rows : RankBefore(d[j][col], d[i][col])})
    + Cardinality({j \in rows : d[j][col] = d[i][col]}) + 1

\* the rank of a column, or the constant 0.5 when the column is absent
ColRank2(d, rows, col, i) ==
    IF col \in Columns THEN Rank2(d, rows, col, i) ELSE Cardinality(rows)

\* a weighted composite: the sum over its components of weight * rank, with
\* ranks[k] the rank of component k
Entry(col, invert, w) == [col |-> col, invert |-> invert, w |-> w]

WeightedSum(weights, ranks) ==
    SumSeq([k \in 1..Len(weights) |-> weights[k].w * ranks[k]])

(***************************************************************************)
(* _score_universe.pct(col, invert): the percentile rank of a column of    *)
(* the stage table d, 0.5 when the column is absent, 1 - rank when         *)
(* inverted; numerators over 2n.                                           *)
(***************************************************************************)
pct(d, col, invert) ==
    [i \in DOMAIN d |->
        IF col \notin DOMAIN d[i] THEN Len(d)
        ELSE LET ranked == Rank2(d, DOMAIN d, col, i)
             IN  IF invert THEN 2 * Len(d) - ranked ELSE ranked]

\* _score_universe of the deep-valuation stage: Deep_Value_Score of every
\* row, a numerator over 2n (the rounding to 2 decimals is monotone and is
\* left out)
DV_WEIGHTS ==
    << Entry("Margin_of_Safety", FALSE, 35),
       Entry("Institutional_Ownership", FALSE, 20),
       Entry("Insider_Ownership", FALSE, 10),
       Entry("Free_Cashflow", FALSE, 15),
       Entry("ROE", FALSE, 10),
       Entry("Debt_to_Equity", TRUE, 10) >>

dv_score_universe(d) ==
    [i \in DOMAIN d |->
        WeightedSum(DV_WEIGHTS,
            [k \in 1..Len(DV_WEIGHTS) |->
                pct(d, DV_WEIGHTS[k].col, DV_WEIGHTS[k].invert)[i]])]

\* _score_universe of the fundamentals stage: Fundamental_Score of every
\* row, a numerator over 2n
FUND_WEIGHTS ==
    << Entry("Sharpe_Ratio", FALSE, 25),
       Entry("ROE", FALSE, 15),
       Entry("Revenue_Growth", FALSE, 15),
       Entry("Earnings_Growth", FALSE, 10),
       Entry("Free_Cashflow", FALSE, 10),
       Entry("PEG_Ratio", TRUE, 10),
       Entry("EV_EBITDA", TRUE, 10),
       Entry("Debt_to_Equity", TRUE, 3),
       Entry("Max_Drawdown", TRUE, 2) >>

fund_score_universe(d) ==
    [i \in DOMAIN d |->
        WeightedSum(FUND_WEIGHTS,
            [k \in 1..Len(FUND_WEIGHTS) |->
                pct(d, FUND_WEIGHTS[k].col, FUND_WEIGHTS[k].invert)[i]])]

(***************************************************************************)
(* sort_values(by, ascending=False).head(n): NaN sorts last, keys compare  *)
(* lexicographically.  Rows with equal keys keep the order of the input    *)
(* table, which is arbitrary: every choice among tied rows is a possible   *)
(* result, so Heads is the set of row sets head(n) can return.             *)
(***************************************************************************)
DescBefore(a, b) == ~isna(a) /\ (isna(b) \/ a > b)

RECURSIVE LexBefore(_, _)
LexBefore(ka, kb) ==
    IF ka = <<>> THEN FALSE
    ELSE IF DescBefore(Head(ka), Head(kb)) THEN TRUE
    ELSE IF Head(ka) = Head(kb) THEN LexBefore(Tail(ka), Tail(kb))
    ELSE FALSE

TopN == 5

headAll(rows, keyf, n) == {rows}

head(rows, keyf, n) ==
    LET before == Stored([r \in rows |->
                     Cardinality({x \in rows : LexBefore(keyf[x], keyf[r])})])
        same   == Stored([r \in rows |->
                     Cardinality({x \in rows : keyf[x] = keyf[r]})])
        sure   == {r \in rows : before[r] + same[r] <= n}
        edge   == {r \in rows : before[r] < n /\ before[r] + same[r] > n}
        take   == IF Cardinality(rows) < n THEN Cardinality(rows) ELSE n
    IN  {sure \cup T : T \in {U \in SUBSET edge :
                                Cardinality(U) = take - Cardinality(sure)}}

(***************************************************************************)
(* _kelly_criterion(win_rate, avg_win, avg_loss), arguments in hundredths, *)
(* result in tenths of a percent.  With b = avg_win/avg_loss the value     *)
(* half_kelly*100 is (wr*aw - (100-wr)*al) / (2*aw) percent, that is       *)
(* 5*(wr*aw - (100-wr)*al) / aw tenths.  avg_win = 0 makes b = 0 and the   *)
(* division by b raises ZeroDivisionError.  An outcome is a record: the    *)
(* value returned, or raised = TRUE when an exception leaves the block.    *)
(***************************************************************************)
Returned(v) == [raised |-> FALSE, value |-> v]

Raised == [raised |-> TRUE, value |-> 0]

\* the body of the try block
KellyTry(win_rate, avg_win, avg_loss) ==
    IF avg_loss = 0 \/ win_rate <= 0 \/ win_rate >= 100 THEN Returned(50)
    ELSE IF avg_win = 0 THEN Raised
    ELSE LET n0  == 5 * (win_rate * avg_win - (100 - win_rate) * avg_loss)
             num == IF avg_win < 0 THEN -n0 ELSE n0
             den == IF avg_win < 0 THEN -avg_win ELSE avg_win
         IN  IF num <= 0 THEN Returned(0)
             ELSE IF num >= 250 * den THEN Returned(250)
             ELSE Returned(RoundHalfEven(num, den))

\* the block without its except clause
KellyNoExcept(win_rate, avg_win, avg_loss) ==
    KellyTry(win_rate, avg_win, avg_loss)

_kelly_criterion(win_rate, avg_win, avg_loss) ==
    LET t == KellyTry(win_rate, avg_win, avg_loss)
    IN  IF t.raised THEN Returned(50) ELSE t

(***************************************************************************)
(* _add_kelly(df, portfolio_type): Kelly_Position_Pct of one row, tenths.  *)
(* base_kelly + modifier*50 is base + (score - 50)/4 percent, i.e.         *)
(* (4*base10 + 10*(score - 50)) / 4 tenths.                                *)
(***************************************************************************)
KellyParams ==
    [court |-> <<55, 25, 8>>, moyen |-> <<60, 50, 15>>, long |-> <<65, 100, 20>>]

KellyKey(portfolio_type) ==
    IF portfolio_type = "Court Terme" THEN "court"
    ELSE IF portfolio_type = "Moyen Terme" THEN "moyen" ELSE "long"

KellyScore(r, key) ==
    IF "Narrative_Score" \in Columns /\ key = "court"
        THEN fillna(r.Narrative_Score, 50)
    ELSE IF "Deep_Value_Score" \in Columns /\ key = "long"
        THEN fillna(r.Deep_Value_Score, 50)
    ELSE IF "Quant_Risk_Score" \in Columns
        THEN fillna(r.Quant_Risk_Score, 50)
    ELSE 50

KellyPctNoClip(base_kelly, score) ==
    RoundHalfEven(4 * base_kelly + 10 * (score - 50), 4)

KellyPct(base_kelly, score) ==
    LET num == 4 * base_kelly + 10 * (score - 50)
    IN  IF num < 4 * 10 THEN 10
        ELSE IF num > 4 * 250 THEN 250
        ELSE RoundHalfEven(num, 4)

_add_kelly(d, rows, portfolio_type) ==
    LET key        == KellyKey(portfolio_type)
        p          == KellyParams[key]
        base_kelly == _kelly_criterion(p[1], p[2], p[3]).value
    IN  [i \in rows |-> KellyPct(base_kelly, KellyScore(d[i], key))]

(***************************************************************************)
(* _pool_candidates(df, pool_tag, exclude_tickers).                        *)
(***************************************************************************)
PoolCandidatesNoExclude(d, pool_tag, exclude_tickers) ==
    LET pool_df == {i \in DOMAIN d : d[i]._pool = pool_tag}
    IN  IF pool_df # {} THEN pool_df ELSE DOMAIN d

_pool_candidates(d, pool_tag, exclude_tickers) ==
    LET pool_df == {i \in DOMAIN d : d[i]._pool = pool_tag
                                     /\ d[i].ticker \notin exclude_tickers}
    IN  IF pool_df # {} THEN pool_df
        ELSE {i \in DOMAIN d : d[i].ticker \notin exclude_tickers}

(***************************************************************************)
(* build_portfolios: the short bucket.                                     *)
(***************************************************************************)
CT_WEIGHTS ==
    << Entry("Relative_Volume", FALSE, 30),
       Entry("Momentum_1M", FALSE, 25),
       Entry("Short_Interest_Pct", FALSE, 25),
       Entry("ATR_14", FALSE, 20) >>

CT_Score(d, rows, i) ==
    WeightedSum(CT_WEIGHTS,
        [k \in 1..Len(CT_WEIGHTS) |-> ColRank2(d, rows, CT_WEIGHTS[k].col, i)])

ct_key(d, rows) ==
    Stored([i \in rows |->
        IF "Narrative_Score" \in Columns
        THEN <<CT_Score(d, rows, i), d[i].Narrative_Score>>
        ELSE <<CT_Score(d, rows, i)>>])

(***************************************************************************)
(* build_portfolios: the medium bucket.                                    *)
(***************************************************************************)
MinEligible == 5

MT_TIERS ==
    << [hurst_min |-> 52, require_sma200 |-> TRUE,  require_inst |-> TRUE],
       [hurst_min |-> 50, require_sma200 |-> TRUE,  require_inst |-> FALSE],
       [hurst_min |-> 48, require_sma200 |-> FALSE, require_inst |-> FALSE],
       [hurst_min |-> 0,  require_sma200 |-> FALSE, require_inst |-> FALSE] >>

price_col ==
    IF "Last_Price" \in Columns THEN "Last_Price"
    ELSE IF "Current_Price" \in Columns THEN "Current_Price" ELSE None

MT_mask(r, t) ==
    /\ ("Hurst_Exponent" \in Columns /\ t.hurst_min > 0)
          => gt(r.Hurst_Exponent, t.hurst_min)
    /\ (t.require_sma200 /\ "SMA_200" \in Columns /\ price_col # None)
          => fillna(r[price_col], 0) > fillna(r.SMA_200, 0)
    /\ (t.require_inst /\ "Top10_Institutional_Pct" \in Columns)
          => fillna(r.Top10_Institutional_Pct, 0) > 20

\* the for loop with its break: the index of the tuple whose mask is kept
MT_loopNoBreak(d, cands, k) == Len(MT_TIERS)

RECURSIVE MT_loop(_, _, _)
MT_loop(d, cands, k) ==
    IF Cardinality({i \in cands : MT_mask(d[i], MT_TIERS[k])}) >= MinEligible
       \/ k = Len(MT_TIERS)
    THEN k ELSE MT_loop(d, cands, k + 1)

\* filtered_mt after the loop stopped at tuple k, with its fallback when empty
MT_filtered(d, cands, k) ==
    LET f == {i \in cands : MT_mask(d[i], MT_TIERS[k])}
    IN  IF f = {} THEN cands ELSE f

MT_WEIGHTS ==
    << Entry("Hurst_Exponent", FALSE, 35),
       Entry("Top10_Institutional_Pct", FALSE, 30),
       Entry("RS_vs_SPY", FALSE, 20),
       Entry("Quant_Risk_Score", FALSE, 15) >>

MT_Score(d, rows, i) ==
    WeightedSum(MT_WEIGHTS,
        [k \in 1..Len(MT_WEIGHTS) |-> ColRank2(d, rows, MT_WEIGHTS[k].col, i)])

mt_key(d, rows) == Stored([i \in rows |-> <<MT_Score(d, rows, i)>>])

(***************************************************************************)
(* build_portfolios: the long bucket.                                      *)
(***************************************************************************)
LT_TIERS ==
    << [mos_min |-> 10, dv_min |-> 55, pio_min |-> 7, alt_min |-> 299],
       [mos_min |-> 10, dv_min |-> 40, pio_min |-> 6, alt_min |-> 250],
       [mos_min |-> 5,  dv_min |-> 30, pio_min |-> 5, alt_min |-> 181],
       [mos_min |-> 0,  dv_min |-> 0,  pio_min |-> 0, alt_min |-> 0] >>

LT_mask(r, t) ==
    /\ ("Margin_of_Safety" \in Columns) => gt(r.Margin_of_Safety, t.mos_min)
    /\ (t.dv_min > 0 /\ "Deep_Value_Score" \in Columns)
          => gt(r.Deep_Value_Score, t.dv_min)
    /\ (t.pio_min > 0 /\ "Piotroski_F_Score" \in Columns)
          => fillna(r.Piotroski_F_Score, 0) >= t.pio_min
    /\ (t.alt_min > 0 /\ "Altman_Z_Score" \in Columns)
          => fillna(r.Altman_Z_Score, 0) >= t.alt_min

LT_loopNoBreak(d, cands, k) == Len(LT_TIERS)

RECURSIVE LT_loop(_, _, _)
LT_loop(d, cands, k) ==
    IF Cardinality({i \in cands : LT_mask(d[i], LT_TIERS[k])}) >= MinEligible
       \/ k = Len(LT_TIERS)
    THEN k ELSE LT_loop(d, cands, k + 1)

\* filtered_lt after the loop stopped at tuple k, with its fallback when empty
LT_filtered(d, cands, k) ==
    LET f == {i \in cands : LT_mask(d[i], LT_TIERS[k])}
    IN  IF f = {} THEN cands ELSE f

InColumns(c) == c \in Columns

lt_sort ==
    SelectSeq(<<"Margin_of_Safety", "Deep_Value_Score", "Fundamental_Score">>,
              InColumns)

lt_key(d, rows) ==
    Stored([i \in rows |-> [c \in 1..Len(lt_sort) |-> d[i][lt_sort[c]]]])

(***************************************************************************)
(* The steps of build_portfolios, in the order of its sections.            *)
(***************************************************************************)
ct_cands == _pool_candidates(df, "court", {})

ct_tickers == tolist(df, short_term)

mt_cands == _pool_candidates(df, "moyen", ct_tickers)

filtered_mt == MT_filtered(df, mt_cands, MT_loop(df, mt_cands, 1))

mt_tickers == tolist(df, medium_term)

lt_cands == _pool_candidates(df, "long", ct_tickers \cup mt_tickers)

filtered_lt == LT_filtered(df, lt_cands, LT_loop(df, lt_cands, 1))

SelectShort ==
    /\ pc = "build"
    /\ short_term' \in head(ct_cands, ct_key(df, ct_cands), TopN)
    /\ pc' = "court_done"
    /\ UNCHANGED <<df, medium_term, long_term, mt_tier, lt_tier, kelly, call, ret>>

SelectMedium ==
    /\ pc = "court_done"
    /\ mt_tier' = MT_loop(df, mt_cands, 1)
    /\ medium_term' \in head(filtered_mt, mt_key(df, filtered_mt), TopN)
    /\ pc' = "moyen_done"
    /\ UNCHANGED <<df, short_term, long_term, lt_tier, kelly, call, ret>>

SelectLong ==
    /\ pc = "moyen_done"
    /\ lt_tier' = LT_loop(df, lt_cands, 1)
    /\ long_term' \in head(filtered_lt, lt_key(df, filtered_lt), TopN)
    /\ pc' = "long_done"
    /\ UNCHANGED <<df, short_term, medium_term, mt_tier, kelly, call, ret>>

AddKelly ==
    /\ pc = "long_done"
    /\ kelly' = [court |-> _add_kelly(df, short_term, "Court Terme"),
                 moyen |-> _add_kelly(df, medium_term, "Moyen Terme"),
                 long  |-> _add_kelly(df, long_term, "Long Terme")]
    /\ pc' = "done"
    /\ UNCHANGED <<df, short_term, medium_term, long_term, mt_tier, lt_tier,
                   call, ret>>

(***************************************************************************)
(* Input tables of build_portfolios.  Tickers are interchangeable, so a    *)
(* table is drawn up to renaming: the profiles of its tickers form a       *)
(* nondecreasing sequence.                                                 *)
(***************************************************************************)
\* a security strong on every attribute, and one weak on every attribute
Strong ==
    [Relative_Volume |-> 3, Narrative_Score |-> 80, Hurst_Exponent |-> 55,
     Last_Price |-> 12, SMA_200 |-> 10, Top10_Institutional_Pct |-> 30,
     Quant_Risk_Score |-> 70, Margin_of_Safety |-> 20,
     Deep_Value_Score |-> 60, Piotroski_F_Score |-> 8,
     Altman_Z_Score |-> 320, Beneish_M_Score |-> -250]

Weak ==
    [Relative_Volume |-> 1, Narrative_Score |-> 40, Hurst_Exponent |-> 45,
     Last_Price |-> 8, SMA_200 |-> 10, Top10_Institutional_Pct |-> 10,
     Quant_Risk_Score |-> 30, Margin_of_Safety |-> -5,
     Deep_Value_Score |-> 20, Piotroski_F_Score |-> 3,
     Altman_Z_Score |-> 100, Beneish_M_Score |-> 0]

Row(t, p, attrs) == [ticker |-> t, _pool |-> p] @@ attrs

RECURSIVE NonDec(_, _)
NonDec(len, k) ==
    IF len = 0 THEN {<<>>}
    ELSE {Append(y[1], y[2]) :
            y \in {z \in NonDec(len - 1, k) \X (1..k) :
                     z[1] = <<>> \/ z[1][Len(z[1])] <= z[2]}}

\* the pool tags one ticker may carry
TagSets == << <<"court">>, <<"moyen">>, <<"long">>, <<"court", "moyen">>,
              <<"court", "long">>, <<"moyen", "long">>,
              <<"court", "moyen", "long">> >>

\* every ticker carries a set of pool tags; odd tickers are strong, even weak
RECURSIVE TaggedTable(_, _)
TaggedTable(s, t) ==
    IF t > Len(s) THEN <<>>
    ELSE [p \in 1..Len(TagSets[s[t]]) |->
             Row(t, TagSets[s[t]][p], IF t % 2 = 1 THEN Strong ELSE Weak)]
         \o TaggedTable(s, t + 1)

TaggedTables ==
    {TaggedTable(s, 1) :
       s \in UNION {NonDec(n, Len(TagSets)) : n \in 1..MaxTickers}}

\* TopN tickers of one pool that fill the bucket of that pool
Fillers(p, first) == [i \in 1..TopN |-> Row(first + i, p, Strong)]

\* medium-horizon grades: the strictest tuple each one passes is 1, 2, 3, 4
MTGrades ==
    << [Hurst_Exponent |-> 55, Last_Price |-> 12, SMA_200 |-> 10,
        Top10_Institutional_Pct |-> 30],
       [Hurst_Exponent |-> 51, Last_Price |-> 12, SMA_200 |-> 10,
        Top10_Institutional_Pct |-> 10],
       [Hurst_Exponent |-> 49, Last_Price |-> 8, SMA_200 |-> 10,
        Top10_Institutional_Pct |-> 10],
       [Hurst_Exponent |-> 45, Last_Price |-> 8, SMA_200 |-> 10,
        Top10_Institutional_Pct |-> 60, Quant_Risk_Score |-> 90] >>

\* one more medium candidate, any of whose rule attributes may be missing
MTFree ==
    {[Hurst_Exponent |-> h, Last_Price |-> ps[1], SMA_200 |-> ps[2],
      Top10_Institutional_Pct |-> i] :
        h \in {NaN, 55}, ps \in {<<12, 10>>, <<NaN, 10>>, <<12, NaN>>},
        i \in {NaN, 30}}

MediumTables ==
    {Fillers("court", 100)
       \o [t \in 1..Len(s) |-> Row(t, "moyen", MTGrades[s[t]] @@ Weak)]
       \o <<Row(0, "moyen", f @@ Weak)>> :
       s \in UNION {NonDec(n, Len(MTGrades)) : n \in (MaxGraded - 2)..MaxGraded},
       f \in MTFree}

\* long-horizon grades: the strictest tuple each one passes is 1, 2, 3, 4,
\* and none for the last
LTGrades ==
    << [Margin_of_Safety |-> 20, Deep_Value_Score |-> 60,
        Piotroski_F_Score |-> 8, Altman_Z_Score |-> 320,
        Beneish_M_Score |-> -250],
       [Margin_of_Safety |-> 25, Deep_Value_Score |-> 45,
        Piotroski_F_Score |-> 6, Altman_Z_Score |-> 260,
        Beneish_M_Score |-> -250],
       [Margin_of_Safety |-> 7, Deep_Value_Score |-> 35,
        Piotroski_F_Score |-> 5, Altman_Z_Score |-> 190,
        Beneish_M_Score |-> 0],
       [Margin_of_Safety |-> 3, Deep_Value_Score |-> 20,
        Piotroski_F_Score |-> 3, Altman_Z_Score |-> 100,
        Beneish_M_Score |-> -250],
       [Margin_of_Safety |-> -5, Deep_Value_Score |-> 20,
        Piotroski_F_Score |-> 3, Altman_Z_Score |-> 100,
        Beneish_M_Score |-> -250] >>

LTFree ==
    {[Margin_of_Safety |-> m, Deep_Value_Score |-> d,
      Piotroski_F_Score |-> p, Altman_Z_Score |-> a, Beneish_M_Score |-> 0] :
        m \in {NaN, 20}, d \in {NaN, 60}, p \in {NaN, 8}, a \in {NaN, 320}}

LongTables ==
    {Fillers("court", 100) \o Fillers("moyen", 200)
       \o [t \in 1..Len(s) |-> Row(t, "long", LTGrades[s[t]] @@ Weak)]
       \o <<Row(0, "long", f @@ Weak)>> :
       s \in UNION {NonDec(n, Len(LTGrades)) : n \in (MaxGraded - 2)..MaxGraded},
       f \in LTFree}

BuildInit(tables) ==
    /\ pc = "build"
    /\ df \in tables
    /\ short_term = {}
    /\ medium_term = {}
    /\ long_term = {}
    /\ mt_tier = 0
    /\ lt_tier = 0
    /\ kelly = None
    /\ call = None
    /\ ret = None

Init == BuildInit(TaggedTables)

InitMT == BuildInit(MediumTables)

InitLT == BuildInit(LongTables)

Next ==
    \/ SelectShort
    \/ SelectMedium
    \/ SelectLong
    \/ AddKelly

\* build_portfolios on tables of pool-tagged tickers
Spec == Init /\ [][Next]_vars

\* build_portfolios on tables that vary the medium-horizon candidates
SpecMT == InitMT /\ [][Next]_vars

\* build_portfolios on tables that vary the long-horizon candidates
SpecLT == InitLT /\ [][Next]_vars

(***************************************************************************)
(* _kelly_criterion and _add_kelly called on their own.                    *)
(***************************************************************************)
Scores == {NaN, -4000, 0, 49, 53, 100, 4050}

KellyCalls ==
    [fn : {"_kelly_criterion"}, win_rate : {-10, 0, 30, 55, 60, 65, 100, 130},
     avg_win : {-25, 0, 25, 50, 100}, avg_loss : {-8, 0, 8, 15, 20}]

AddKellyCalls ==
    [fn : {"_add_kelly"},
     portfolio_type : {"Court Terme", "Moyen Terme", "Long Terme"},
     df : {<<[ticker |-> 1, Narrative_Score |-> n, Deep_Value_Score |-> v,
              Quant_Risk_Score |-> q]>> : n \in Scores, v \in Scores, q \in Scores}]

CallInit(point, calls) ==
    /\ pc = point
    /\ call \in calls
    /\ ret = None
    /\ df = <<>>
    /\ short_term = {}
    /\ medium_term = {}
    /\ long_term = {}
    /\ mt_tier = 0
    /\ lt_tier = 0
    /\ kelly = None

InitKelly == CallInit("kelly", KellyCalls \cup AddKellyCalls)

CallKellyCriterion ==
    /\ pc = "kelly"
    /\ call.fn = "_kelly_criterion"
    /\ ret' = _kelly_criterion(call.win_rate, call.avg_win, call.avg_loss)
    /\ pc' = "returned"
    /\ UNCHANGED <<df, short_term, medium_term, long_term, mt_tier, lt_tier,
                   kelly, call>>

CallAddKelly ==
    /\ pc = "kelly"
    /\ call.fn = "_add_kelly"
    /\ ret' = _add_kelly(call.df, DOMAIN call.df, call.portfolio_type)
    /\ pc' = "returned"
    /\ UNCHANGED <<df, short_term, medium_term, long_term, mt_tier, lt_tier,
                   kelly, call>>

NextKelly ==
    \/ CallKellyCriterion
    \/ CallAddKelly

SpecKelly == InitKelly /\ [][NextKelly]_vars

(***************************************************************************)
(* The deep-valuation _score_universe on a stage table, then on the same   *)
(* table with one value replaced by a missing one.                         *)
(***************************************************************************)
Values == {NaN, 1, 2}

StageTables ==
    UNION {[1..n -> [Margin_of_Safety : Values, Debt_to_Equity : Values]] :
             n \in 1..MaxUniverse}

InitScore == CallInit("score", [fn : {"_score_universe"}, df : StageTables])

ScoreUniverse ==
    /\ pc = "score"
    /\ ret' = [score |-> dv_score_universe(call.df), was |-> <<>>,
               row |-> 0, col |-> None]
    /\ pc' = "scored"
    /\ UNCHANGED <<df, short_term, medium_term, long_term, mt_tier, lt_tier,
                   kelly, call>>

\* the value of one attribute of one security goes missing, and the table
\* is scored again
RescoreWithMissing ==
    /\ pc = "scored"
    /\ \E i \in DOMAIN call.df : \E c \in DOMAIN call.df[i] :
          /\ ~isna(call.df[i][c])
          /\ call' = [call EXCEPT !.df[i][c] = NaN]
          /\ ret' = [score |-> dv_score_universe(call'.df), was |-> ret.score,
                     row |-> i, col |-> c]
    /\ pc' = "rescored"
    /\ UNCHANGED <<df, short_term, medium_term, long_term, mt_tier, lt_tier,
                   kelly>>

NextScore ==
    \/ ScoreUniverse
    \/ RescoreWithMissing

SpecScore == InitScore /\ [][NextScore]_vars

(***************************************************************************)
(* Claims about build_portfolios.                                          *)
(***************************************************************************)
Tickers(d) == {d[i].ticker : i \in DOMAIN d}

TagsOf(d, t) == {d[i]._pool : i \in {j \in DOMAIN d : d[j].ticker = t}}

\* C1: for any input table the ticker sets of the short, medium and long
\* buckets are pairwise disjoint.
C1_BucketsDisjoint ==
    /\ tolist(df, short_term) \cap tolist(df, medium_term) = {}
    /\ tolist(df, short_term) \cap tolist(df, long_term) = {}
    /\ tolist(df, medium_term) \cap tolist(df, long_term) = {}

\* a table of fewer than 15 securities in which a ticker of the short bucket
\* also carries the tags of the two other pools, all three buckets filled
C1_Witness ==
    /\ pc = "done"
    /\ Cardinality(Tickers(df)) < 15
    /\ medium_term # {}
    /\ long_term # {}
    /\ \E i \in short_term : TagsOf(df, df[i].ticker) = Pools

\* C2: each bucket holds at most 5 rows; the short bucket picks first among
\* all its candidates, and every section of build_portfolios yields a bucket
\* on every table (a table of exactly 5 securities included).
C2_AtMostFive ==
    /\ Cardinality(short_term) <= 5
    /\ Cardinality(medium_term) <= 5
    /\ Cardinality(long_term) <= 5
    /\ pc # "build" =>
         Cardinality(short_term)
           = IF Cardinality(ct_cands) < 5 THEN Cardinality(ct_cands) ELSE 5
    /\ pc = "build" => head(ct_cands, ct_key(df, ct_cands), TopN) # {}
    /\ pc = "court_done" => head(filtered_mt, mt_key(df, filtered_mt), TopN) # {}
    /\ pc = "moyen_done" => head(filtered_lt, lt_key(df, filtered_lt), TopN) # {}

\* a table of exactly 5 securities, the short bucket having taken all five
C2_Witness ==
    /\ pc = "done"
    /\ Cardinality(Tickers(df)) = 5
    /\ Cardinality(short_term) = 5
    /\ \A t \in Tickers(df) : TagsOf(df, t) = Pools
    /\ medium_term = {}
    /\ long_term = {}

\* bucket is a possible head(n) of rows sorted by keyf in descending order
IsHeadOf(bucket, rows, keyf, n) ==
    /\ bucket \subseteq rows
    /\ Cardinality(bucket) = IF Cardinality(rows) < n THEN Cardinality(rows) ELSE n
    /\ \A b \in bucket : \A x \in rows \ bucket : ~LexBefore(keyf[x], keyf[b])

AfterMedium == pc \in {"moyen_done", "long_done", "done"}

AfterLong == pc \in {"long_done", "done"}

\* the long candidates that pass rule tuple k
LTPass(k) == {i \in lt_cands : LT_mask(df[i], LT_TIERS[k])}

\* the rule tuples that admit at least 5 long candidates
LTReach == {k \in DOMAIN LT_TIERS : Cardinality(LTPass(k)) >= 5}

\* the long candidates with a positive margin of safety
Undervalued == {i \in lt_cands : gt(df[i].Margin_of_Safety, 0)}

\* C3 as stated: the long bucket is the top 5 of the first tuple that admits
\* at least 5 candidates, and when no tuple admits 5 it is the top 5 of the
\* unfiltered long candidate set.
C3_Original ==
    AfterLong =>
        IF LTReach # {}
        THEN IsHeadOf(long_term, LTPass(Min(LTReach)),
                      lt_key(df, LTPass(Min(LTReach))), 5)
        ELSE IsHeadOf(long_term, lt_cands, lt_key(df, lt_cands), 5)

\* C3 amended: the long bucket is the top 5 of the first tuple that admits at
\* least 5 candidates; when no tuple admits 5 it is the top 5 of the
\* candidates with a positive margin of safety, and of the unfiltered long
\* candidate set only when no candidate has a positive margin of safety.
C3_LongTiers ==
    AfterLong =>
        IF LTReach # {}
        THEN /\ lt_tier = Min(LTReach)
             /\ IsHeadOf(long_term, LTPass(Min(LTReach)),
                         lt_key(df, LTPass(Min(LTReach))), 5)
        ELSE IF Undervalued # {}
        THEN IsHeadOf(long_term, Undervalued, lt_key(df, Undervalued), 5)
        ELSE IsHeadOf(long_term, lt_cands, lt_key(df, lt_cands), 5)

\* no tuple admits 5 candidates and a candidate without a positive margin of
\* safety stays out of a bucket of fewer than 5
C3_Witness ==
    /\ pc = "long_done"
    /\ LTReach = {}
    /\ Undervalued # {}
    /\ long_term = Undervalued
    /\ lt_cands \ long_term # {}
    /\ Cardinality(long_term) < 5

\* the medium candidates that pass rule tuple k
MTPass(k) == {i \in mt_cands : MT_mask(df[i], MT_TIERS[k])}

\* the rule tuples that admit at least 5 medium candidates
MTReach == {k \in DOMAIN MT_TIERS : Cardinality(MTPass(k)) >= 5}

\* C4: the medium bucket ranks the survivors of the first of the tuples
\* (0.52, sma200, inst), (0.50, sma200, -), (0.48, -, -), (0, -, -) that admits
\* at least 5 candidates not in the short bucket, and the whole candidate set
\* when none admits 5.
C4_MediumTiers ==
    /\ MT_TIERS = << [hurst_min |-> 52, require_sma200 |-> TRUE,  require_inst |-> TRUE],
                     [hurst_min |-> 50, require_sma200 |-> TRUE,  require_inst |-> FALSE],
                     [hurst_min |-> 48, require_sma200 |-> FALSE, require_inst |-> FALSE],
                     [hurst_min |-> 0,  require_sma200 |-> FALSE, require_inst |-> FALSE] >>
    /\ AfterMedium =>
        /\ tolist(df, mt_cands) \cap tolist(df, short_term) = {}
        /\ IF MTReach # {}
           THEN /\ mt_tier = Min(MTReach)
                /\ IsHeadOf(medium_term, MTPass(Min(MTReach)),
                            mt_key(df, MTPass(Min(MTReach))), 5)
           ELSE IsHeadOf(medium_term, mt_cands, mt_key(df, mt_cands), 5)

\* the second tuple is the first to admit 5 candidates, and a candidate that
\* only a looser tuple admits stays out of a bucket of 5
C4_Witness ==
    /\ pc = "moyen_done"
    /\ Min(MTReach \cup {4}) = 2
    /\ Cardinality(medium_term) = 5
    /\ mt_cands \ MTPass(2) # {}
    /\ medium_term \subseteq MTPass(2)

\* C5: a long bucket selected at one of the first three rule tuples holds no
\* security whose Beneish M exceeds -1.78.
C5_Original ==
    (AfterLong /\ lt_tier < Len(LT_TIERS)) =>
        \A i \in long_term : ~gt(df[i].Beneish_M_Score, -178)

\* the attributes the rules of medium tuple k read
MTUsed(k) ==
    (IF MT_TIERS[k].hurst_min > 0 THEN {"Hurst_Exponent"} ELSE {})
    \cup (IF MT_TIERS[k].require_sma200 THEN {"SMA_200", "Last_Price"} ELSE {})
    \cup (IF MT_TIERS[k].require_inst THEN {"Top10_Institutional_Pct"} ELSE {})

\* the attributes the rules of long tuple k read
LTUsed(k) ==
    {"Margin_of_Safety"}
    \cup (IF LT_TIERS[k].dv_min > 0 THEN {"Deep_Value_Score"} ELSE {})
    \cup (IF LT_TIERS[k].pio_min > 0 THEN {"Piotroski_F_Score"} ELSE {})
    \cup (IF LT_TIERS[k].alt_min > 0 THEN {"Altman_Z_Score"} ELSE {})

\* C6: a candidate with a missing value of an attribute that a rule of a
\* tuple reads is excluded at that tuple: no survivor of a medium or long
\* tuple misses an attribute the tuple reads.
C6_Original ==
    /\ AfterMedium =>
          \A k \in DOMAIN MT_TIERS : \A i \in MTPass(k) : \A c \in MTUsed(k) :
             ~isna(df[i][c])
    /\ AfterLong =>
          \A k \in DOMAIN LT_TIERS : \A i \in LTPass(k) : \A c \in LTUsed(k) :
             ~isna(df[i][c])

(***************************************************************************)
(* Claims about the percentile ranks.                                      *)
(***************************************************************************)
Scored == pc \in {"scored", "rescored"}

\* the percentile numerators of the two columns of the scored table
RankOf(c) == pct(call.df, c, c = "Debt_to_Equity")

\* C7: a missing value receives the lowest percentile rank of its universe,
\* inverted or not, and replacing a security's value by a missing one never
\* raises that security's composite score.
C7_Original ==
    /\ Scored =>
         \A c \in {"Margin_of_Safety", "Debt_to_Equity"} :
           \A i \in DOMAIN call.df :
              isna(call.df[i][c]) =>
                 \A j \in DOMAIN call.df : RankOf(c)[i] <= RankOf(c)[j]
    /\ pc = "rescored" => ret.score[ret.row] <= ret.was[ret.row]

\* C8: every percentile rank is in [0,1], tied values share one rank, and
\* the only holder of the largest non-missing value has rank 1.0 when not
\* inverted and 0.0 when inverted.
C8_Original ==
    Scored =>
      \A c \in {"Margin_of_Safety", "Debt_to_Equity"} :
        LET d == call.df
            n == Len(d)
            top(i) == /\ ~isna(d[i][c])
                      /\ \A j \in DOMAIN d \ {i} : isna(d[j][c]) \/ d[j][c] < d[i][c]
        IN  \A i \in DOMAIN d :
              /\ 0 <= RankOf(c)[i] /\ RankOf(c)[i] <= 2 * n
              /\ \A j \in DOMAIN d : d[i][c] = d[j][c] => RankOf(c)[i] = RankOf(c)[j]
              /\ top(i) => RankOf(c)[i] = IF c = "Debt_to_Equity" THEN 0 ELSE 2 * n

(***************************************************************************)
(* Claims about the Kelly sizing.                                          *)
(***************************************************************************)
\* C9: Kelly_Position_Pct written by _add_kelly is within [1.0, 25.0] for
\* every row, whatever the bucket type, the base fraction and the score.
C9_KellyWithinBounds ==
    (pc = "returned" /\ call.fn = "_add_kelly") =>
        /\ \A i \in DOMAIN ret : 10 <= ret[i] /\ ret[i] <= 250
        /\ \A base \in 0..250 :
             LET k == KellyPct(base, KellyScore(call.df[1], KellyKey(call.portfolio_type)))
             IN  10 <= k /\ k <= 250

\* a score of 4050 is an adjustment of +1000 and is still capped at 25.0; a
\* missing score leaves the base fraction
C9_Witness ==
    /\ pc = "returned"
    /\ call.fn = "_add_kelly"
    /\ call.portfolio_type = "Court Terme"
    /\ call.df[1].Narrative_Score = 4050
    /\ isna(call.df[1].Deep_Value_Score)
    /\ ret[1] = 250

\* v is the half-Kelly percentage of the triple, clamped to [0,25], to the
\* nearest tenth
IsHalfKelly(v, win_rate, avg_win, avg_loss) ==
    LET n0  == 5 * (win_rate * avg_win - (100 - win_rate) * avg_loss)
        num == IF avg_win < 0 THEN -n0 ELSE n0
        den == IF avg_win < 0 THEN -avg_win ELSE avg_win
        gap == IF v * den < num THEN num - v * den ELSE v * den - num
    IN  IF num <= 0 THEN v = 0
        ELSE IF num >= 250 * den THEN v = 250
        ELSE 2 * gap <= den

KellyReturned == pc = "returned" /\ call.fn = "_kelly_criterion"

\* C10 as stated: _kelly_criterion returns 5.0 when win_rate <= 0,
\* win_rate >= 1 or avg_loss = 0, otherwise the half-Kelly percentage clamped
\* to [0,25], and never raises.
C10_Original ==
    KellyReturned =>
        /\ ~ret.raised
        /\ IF call.avg_loss = 0 \/ call.win_rate <= 0 \/ call.win_rate >= 100
           THEN ret.value = 50
           ELSE IsHalfKelly(ret.value, call.win_rate, call.avg_win, call.avg_loss)

\* C10 amended: _kelly_criterion returns 5.0 when win_rate <= 0,
\* win_rate >= 1, avg_loss = 0 or avg_win = 0, otherwise the half-Kelly
\* percentage clamped to [0,25] and rounded to one decimal, and never raises.
C10_KellyCriterion ==
    KellyReturned =>
        /\ ~ret.raised
        /\ IF call.avg_loss = 0 \/ call.win_rate <= 0 \/ call.win_rate >= 100
              \/ call.avg_win = 0
           THEN ret.value = 50
           ELSE IsHalfKelly(ret.value, call.win_rate, call.avg_win, call.avg_loss)

\* a valid win rate and loss with avg_win = 0: the default 5.0 is returned
C10_Witness ==
    /\ KellyReturned
    /\ call.win_rate = 55
    /\ call.avg_win = 0
    /\ call.avg_loss = 8
    /\ ret = Returned(50)

(***************************************************************************)
(* _piotroski_f_score(info).  A field of info is None (or absent: get      *)
(* gives the default either way) or a number; ratios are in hundredths.    *)
(* `info.get(k, d) or d` gives d for a missing field and for 0.            *)
(***************************************************************************)
\* None as the value of a numeric field
NoField == -2000000

get_or(info, k, d) == IF info[k] = NoField \/ info[k] = 0 THEN d ELSE info[k]

\* a / b > c / 100 and a / b < c / 100 for b # 0
DivGt(a, b, c) == IF b > 0 THEN 100 * a > c * b ELSE 100 * a < c * b

DivLt(a, b, c) == IF b > 0 THEN 100 * a < c * b ELSE 100 * a > c * b

Bit(b) == IF b THEN 1 ELSE 0

\* the nine increments of score, in the order of the if statements
PiotroskiChecks(info) ==
    LET roa          == get_or(info, "returnOnAssets", 0)
        cfo          == get_or(info, "operatingCashflow", 0)
        total_assets == get_or(info, "totalAssets", 1)
        curr_ratio   == get_or(info, "currentRatio", 0)
        shares       == get_or(info, "sharesOutstanding", 0)
        gross_margin == get_or(info, "grossMargins", 0)
        revenue      == get_or(info, "totalRevenue", 1)
        lt_debt      == get_or(info, "longTermDebt", 0)
        net_income   == get_or(info, "netIncomeToCommon", 0)
    IN  << Bit(roa > 0),
           Bit(cfo > 0),
           Bit(net_income > 0),
           Bit(DivGt(cfo, total_assets, roa)),
           Bit(DivLt(lt_debt, total_assets, 50)),
           Bit(curr_ratio > 100),
           Bit(shares > 0),
           Bit(gross_margin > 0),
           Bit(DivGt(revenue, total_assets, 0)) >>

_piotroski_f_score(info) == SumSeq(PiotroskiChecks(info))

Infos ==
    [returnOnAssets : {NoField, -5, 5}, operatingCashflow : {NoField, -10, 10},
     totalAssets : {NoField, 0, 100}, currentRatio : {NoField, 150},
     sharesOutstanding : {NoField, 10}, grossMargins : {NoField, 30},
     totalRevenue : {NoField, 200}, longTermDebt : {NoField, 80},
     netIncomeToCommon : {NoField, 7}]

InitPiotroski == CallInit("piotroski", [fn : {"_piotroski_f_score"}, info : Infos])

CallPiotroski ==
    /\ pc = "piotroski"
    /\ ret' = _piotroski_f_score(call.info)
    /\ pc' = "returned"
    /\ UNCHANGED <<df, short_term, medium_term, long_term, mt_tier, lt_tier,
                   kelly, call>>

SpecPiotroski == InitPiotroski /\ [][CallPiotroski]_vars

\* the field each of the nine checks is about
PiotroskiField ==
    << "returnOnAssets", "operatingCashflow", "netIncomeToCommon",
       "operatingCashflow", "longTermDebt", "currentRatio",
       "sharesOutstanding", "grossMargins", "totalRevenue" >>

\* C11: _piotroski_f_score returns an integer in [0,9], a check whose field
\* is missing contributes 0, and an input with every field missing scores 0.
C11_Original ==
    pc = "returned" =>
        /\ ret \in 0..9
        /\ \A k \in 1..9 :
              call.info[PiotroskiField[k]] = NoField
                 => PiotroskiChecks(call.info)[k] = 0
        /\ (\A f \in DOMAIN call.info : call.info[f] = NoField) => ret = 0

(***************************************************************************)
(* The quant stage: run_quant_models fills the missing numeric values with *)
(* the column medians and calls _score_universe.  VaR_95, Ann_Volatility   *)
(* and Hurst_Exponent are ranked, Price_vs_VWAP is in hundredths, and the  *)
(* scores are numerators over QuantDen = 2n * 50.                          *)
(***************************************************************************)
_TV_BONUS_MAP(label) ==
    CASE label = "STRONG_BUY" -> 15
      [] label = "BUY" -> 8
      [] label = "NEUTRAL" -> 0
      [] label = "SELL" -> -5
      [] label = "STRONG_SELL" -> -10
      [] OTHER -> NaN

\* _TV_BONUS of the export stage
_TV_BONUS(label) ==
    CASE label = "STRONG_BUY" -> 15
      [] label = "BUY" -> 8
      [] label = "NEUTRAL" -> 0
      [] label = "SELL" -> -8
      [] label = "STRONG_SELL" -> -15
      [] OTHER -> NaN

NumericCols == {"VaR_95", "Ann_Volatility", "Hurst_Exponent", "Price_vs_VWAP"}

\* the k-th smallest of the non-missing values of a column
Kth(d, col, k) ==
    LET I == {i \in DOMAIN d : ~isna(d[i][col])}
    IN  CHOOSE x \in {d[i][col] : i \in I} :
           /\ Cardinality({j \in I : d[j][col] < x}) < k
           /\ k <= Cardinality({j \in I : d[j][col] <= x})

\* DataFrame.median() of one column: NaN when every value is missing
median(d, col) ==
    LET k == Cardinality({i \in DOMAIN d : ~isna(d[i][col])})
    IN  IF k = 0 THEN NaN
        ELSE (Kth(d, col, (k + 1) \div 2) + Kth(d, col, k \div 2 + 1)) \div 2

\* risk_df[numeric_cols].fillna(risk_df[numeric_cols].median())
FillMedian(d) ==
    [i \in DOMAIN d |->
        [c \in DOMAIN d[i] |->
            IF c \in NumericCols THEN fillna(d[i][c], median(d, c)) ELSE d[i][c]]]

QuantDen(d) == 2 * Len(d) * 50

\* (1 - |Price_vs_VWAP - 0.05| / 0.50).clip(0, 1), in fiftieths
vwap_proximity(p) ==
    IF isna(p) THEN NaN
    ELSE clip(50 - (IF p < 5 THEN 5 - p ELSE p - 5), 0, 50)

QR_WEIGHTS ==
    << Entry("VaR_95", TRUE, 25),
       Entry("Ann_Volatility", TRUE, 20),
       Entry("Hurst_Exponent", FALSE, 25),
       Entry("vwap_proximity", FALSE, 20) >>

\* one component of base_score for row i, a numerator over QuantDen
QuantComponent(d, i, col, invert) ==
    IF col = "vwap_proximity"
    THEN 2 * Len(d) * vwap_proximity(d[i].Price_vs_VWAP)
    ELSE 50 * pct(d, col, invert)[i]

base_score(d) ==
    [i \in DOMAIN d |->
        IF isna(d[i].Price_vs_VWAP) THEN NaN
        ELSE WeightedSum(QR_WEIGHTS,
                 [k \in 1..Len(QR_WEIGHTS) |->
                     QuantComponent(d, i, QR_WEIGHTS[k].col, QR_WEIGHTS[k].invert)])]

tv_bonus(d) == [i \in DOMAIN d |-> fillna(_TV_BONUS_MAP(d[i].TradingView_Rec), 0)]

\* _score_universe of the quant stage: base, bonuses, clip(0, 100)
qr_score_universe(d) ==
    [i \in DOMAIN d |->
        IF isna(base_score(d)[i]) THEN NaN
        ELSE clip(base_score(d)[i]
                  + (Bit(d[i].Bullish_Divergence) * 10 + tv_bonus(d)[i]
                     + d[i].Commodity_Adj) * QuantDen(d),
                  0, 100 * QuantDen(d))]

Labels == {"STRONG_BUY", "BUY", "NEUTRAL", "SELL", "STRONG_SELL", "N/A"}

\* the metrics of one ticker; the last is the base record of a ticker whose
\* download failed
QuantMetrics ==
    { [VaR_95 |-> 1, Ann_Volatility |-> 1, Hurst_Exponent |-> 60, Price_vs_VWAP |-> 5],
      [VaR_95 |-> 5, Ann_Volatility |-> 5, Hurst_Exponent |-> 50, Price_vs_VWAP |-> 35],
      [VaR_95 |-> 9, Ann_Volatility |-> 9, Hurst_Exponent |-> 40, Price_vs_VWAP |-> 85],
      [VaR_95 |-> NaN, Ann_Volatility |-> NaN, Hurst_Exponent |-> NaN,
       Price_vs_VWAP |-> NaN] }

QuantRow(m, div, rec, adj) ==
    m @@ [Bullish_Divergence |-> div, TradingView_Rec |-> rec, Commodity_Adj |-> adj]

\* the first ticker takes every combination of bonuses, the others none
QuantTables ==
    UNION { { <<QuantRow(m, div, rec, adj)>> \o rest :
                m \in QuantMetrics, div \in BOOLEAN, rec \in Labels,
                adj \in {-5, 0, 8},
                rest \in [1..(n - 1) -> {QuantRow(x, FALSE, "N/A", 0) : x \in QuantMetrics}] } :
            n \in 1..MaxUniverse }

InitQuant == CallInit("quant", [fn : {"run_quant_models"}, df : QuantTables])

RunQuantScore ==
    /\ pc = "quant"
    /\ call' = [call EXCEPT !.df = FillMedian(call.df)]
    /\ ret' = [base_score |-> base_score(call'.df), tv_bonus |-> tv_bonus(call'.df),
               Quant_Risk_Score |-> qr_score_universe(call'.df)]
    /\ pc' = "scored"
    /\ UNCHANGED <<df, short_term, medium_term, long_term, mt_tier, lt_tier,
                   kelly>>

SpecQuant == InitQuant /\ [][RunQuantScore]_vars

\* C12: the technical-consensus bonus of the quant composite maps
\* STRONG_BUY, BUY, NEUTRAL, SELL, STRONG_SELL to +15, +8, 0, -8, -15 and
\* any other label to 0.
C12_Original ==
    pc = "scored" =>
        \A i \in DOMAIN call.df :
            ret.tv_bonus[i] = fillna(_TV_BONUS(call.df[i].TradingView_Rec), 0)

SumWeights(weights) == SumSeq([k \in 1..Len(weights) |-> weights[k].w])

\* row i is strictly ahead of every other row on every component
BestOnAll(d, i) ==
    \A k \in 1..Len(QR_WEIGHTS) : \A j \in DOMAIN d \ {i} :
        QuantComponent(d, i, QR_WEIGHTS[k].col, QR_WEIGHTS[k].invert)
          > QuantComponent(d, j, QR_WEIGHTS[k].col, QR_WEIGHTS[k].invert)

\* C13: in every weighted composite the component weights sum to exactly
\* 100, and a security ranked best on every component has a base score of
\* 100 before bonuses.
C13_Original ==
    pc = "scored" =>
        /\ \A weights \in {FUND_WEIGHTS, DV_WEIGHTS, QR_WEIGHTS, CT_WEIGHTS, MT_WEIGHTS} :
              SumWeights(weights) = 100
        /\ \A i \in DOMAIN call.df :
              (~isna(ret.base_score[i]) /\ BestOnAll(call.df, i))
                 => ret.base_score[i] = 100 * QuantDen(call.df)

\* C14: every composite score of every security lies in [0,100], whatever
\* the universe and the bonuses.
C14_Original ==
    pc = "scored" =>
        \A i \in DOMAIN call.df :
            /\ 0 <= ret.Quant_Risk_Score[i]
            /\ ret.Quant_Risk_Score[i] <= 100 * QuantDen(call.df)
            /\ 0 <= fund_score_universe(call.df)[i]
            /\ fund_score_universe(call.df)[i] <= 100 * 2 * Len(call.df)
            /\ 0 <= dv_score_universe(call.df)[i]
            /\ dv_score_universe(call.df)[i] <= 100 * 2 * Len(call.df)

(***************************************************************************)
(* _altman_z_score.  v holds the eight values read from the balance sheet, *)
(* the income statement and info (NaN when the statement, the row or the   *)
(* value is absent); the result is in thousandths.                         *)
(***************************************************************************)
AltmanFields ==
    {"total_assets", "current_assets", "current_liabilities",
     "retained_earnings", "total_liabilities", "ebit", "market_cap", "revenue"}

\* 1000 * z as the fraction num / den with den > 0, x4 over denominator x4den
AltmanFraction(v, x4den) ==
    LET n1  == 1200 * (v.current_assets - v.current_liabilities)
               + 1400 * v.retained_earnings + 3300 * v.ebit + 1000 * v.revenue
        num == n1 * x4den + 600 * v.market_cap * v.total_assets
        den == v.total_assets * x4den
    IN  IF den < 0 THEN [num |-> -num, den |-> -den] ELSE [num |-> num, den |-> den]

\* x4 computed over total assets instead of total liabilities
AltmanZOverAssets(v) ==
    LET f == AltmanFraction(v, v.total_assets)
    IN  RoundHalfEven(f.num, f.den)

\* round(float(z), 3)
AltmanZ(v) ==
    LET f == AltmanFraction(v, v.total_liabilities)
    IN  RoundHalfEven(f.num, f.den)

_altman_z_score(v) ==
    IF \E f \in AltmanFields : isna(v[f]) THEN Returned(NaN)
    ELSE IF v.total_assets = 0 \/ v.total_liabilities = 0 THEN Returned(NaN)
    ELSE Returned(AltmanZ(v))

AltmanInputs ==
    [total_assets : {NaN, 0, 7, 100}, current_assets : {NaN, 60},
     current_liabilities : {NaN, 20}, retained_earnings : {NaN, -30, 30},
     total_liabilities : {NaN, 0, 40}, ebit : {NaN, 10},
     market_cap : {NaN, 200}, revenue : {NaN, 0, 70}]

InitAltman == CallInit("altman", [fn : {"_altman_z_score"}, v : AltmanInputs])

CallAltman ==
    /\ pc = "altman"
    /\ ret' = _altman_z_score(call.v)
    /\ pc' = "returned"
    /\ UNCHANGED <<df, short_term, medium_term, long_term, mt_tier, lt_tier,
                   kelly, call>>

SpecAltman == InitAltman /\ [][CallAltman]_vars

AltmanMissing(v) ==
    \/ \E f \in AltmanFields : isna(v[f])
    \/ v.total_assets = 0
    \/ v.total_liabilities = 0

\* C15: _altman_z_score never raises; it returns missing (not 0) whenever one
\* of its eight inputs is missing or total assets or total liabilities is 0,
\* and otherwise 1.2*X1 + 1.4*X2 + 3.3*X3 + 0.6*X4 + 1.0*X5 (to the third
\* decimal).
C15_AltmanZ ==
    pc = "returned" =>
        /\ ~ret.raised
        /\ IF AltmanMissing(call.v) THEN isna(ret.value)
           ELSE LET v   == call.v
                    ta  == v.total_assets
                    tl  == v.total_liabilities
                    \* 1000 * z * ta * tl
                    num == (1200 * (v.current_assets - v.current_liabilities)
                            + 1400 * v.retained_earnings + 3300 * v.ebit
                            + 1000 * v.revenue) * tl
                           + 600 * v.market_cap * ta
                    gap == ret.value * ta * tl - num
                    den == ta * tl
                IN  /\ ~isna(ret.value)
                    /\ 2 * (IF gap < 0 THEN -gap ELSE gap)
                         <= (IF den < 0 THEN -den ELSE den)

\* total assets = 0 with every value present gives missing
C15_Witness ==
    /\ pc = "returned"
    /\ call.v.total_assets = 0
    /\ \A f \in AltmanFields : ~isna(call.v[f])
    /\ call.v.total_liabilities = 40
    /\ isna(ret.value)

(***************************************************************************)
(* _beneish_m_score.  periods is the number of annual columns of the       *)
(* statements, v the values _val reads (NaN when absent).  The indices and *)
(* the score are fixed-point numbers in thousandths.                       *)
(***************************************************************************)
\* num / den in thousandths, den # 0
Milli(num, den) ==
    IF den < 0 THEN RoundHalfEven(-1000 * num, -den)
    ELSE RoundHalfEven(1000 * num, den)

BeneishRequired ==
    {"rev_t", "rev_t1", "cogs_t", "cogs_t1", "sga_t", "sga_t1", "ni_t",
     "ta_t", "ta_t1", "ca_t", "ca_t1", "ppe_t", "ppe_t1",
     "recv_t", "recv_t1", "cfo_t"}

\* the eight indices, each with its fallback
BeneishIndices(v) ==
    LET ltd_t  == fillna(v.ltd_t, 0)
        ltd_t1 == fillna(v.ltd_t1, 0)
    IN  [dsri |-> IF v.recv_t1 # 0
                  THEN Milli(v.recv_t * v.rev_t1, v.rev_t * v.recv_t1) ELSE 1000,
         gmi  |-> IF v.rev_t - v.cogs_t # 0
                  THEN Milli((v.rev_t1 - v.cogs_t1) * v.rev_t,
                             v.rev_t1 * (v.rev_t - v.cogs_t))
                  ELSE 1000,
         aqi  |-> IF v.ta_t1 - v.ca_t1 - v.ppe_t1 # 0
                  THEN Milli((v.ta_t - v.ca_t - v.ppe_t) * v.ta_t1,
                             v.ta_t * (v.ta_t1 - v.ca_t1 - v.ppe_t1))
                  ELSE 1000,
         sgi  |-> Milli(v.rev_t, v.rev_t1),
         depi |-> IF isna(v.da_t) \/ isna(v.da_t1) THEN 1000
                  ELSE IF v.da_t + v.ppe_t = 0 \/ v.da_t = 0 THEN 1000
                  ELSE IF v.da_t1 + v.ppe_t1 = 0 THEN 0
                  ELSE Milli(v.da_t1 * (v.da_t + v.ppe_t),
                             (v.da_t1 + v.ppe_t1) * v.da_t),
         sgai |-> IF v.sga_t1 # 0
                  THEN Milli(v.sga_t * v.rev_t1, v.rev_t * v.sga_t1) ELSE 1000,
         lvgi |-> IF isna(v.cl_t) \/ isna(v.cl_t1) THEN NaN
                  ELSE IF v.cl_t1 + ltd_t1 # 0
                  THEN Milli((v.cl_t + ltd_t) * v.ta_t1, v.ta_t * (v.cl_t1 + ltd_t1))
                  ELSE 1000,
         tata |-> Milli(v.ni_t - v.cfo_t, v.ta_t)]

\* round(float(m), 3); NaN when an index is NaN
BeneishM(x) ==
    IF isna(x.lvgi) THEN NaN
    ELSE -4840 + RoundHalfEven(920 * x.dsri + 528 * x.gmi + 404 * x.aqi
                               + 892 * x.sgi + 115 * x.depi - 172 * x.sgai
                               + 4679 * x.tata - 327 * x.lvgi, 1000)

_beneish_m_score(periods, v) ==
    IF periods < 2 THEN Returned(NaN)
    ELSE IF \E f \in BeneishRequired : isna(v[f]) THEN Returned(NaN)
    ELSE IF v.rev_t = 0 \/ v.rev_t1 = 0 \/ v.ta_t = 0 \/ v.ta_t1 = 0
         THEN Returned(NaN)
    ELSE Returned(BeneishM(BeneishIndices(v)))

\* two complete annual periods
BeneishBase ==
    [rev_t |-> 12, rev_t1 |-> 10, cogs_t |-> 6, cogs_t1 |-> 5, sga_t |-> 3,
     sga_t1 |-> 2, ni_t |-> 2, ta_t |-> 20, ta_t1 |-> 16, ca_t |-> 8,
     ca_t1 |-> 6, ppe_t |-> 4, ppe_t1 |-> 4, recv_t |-> 3, recv_t1 |-> 2,
     cl_t |-> 5, cl_t1 |-> 4, ltd_t |-> 4, ltd_t1 |-> 4, cfo_t |-> 1,
     da_t |-> 1, da_t1 |-> 1]

\* the base with up to two values missing or zero
BeneishInputs ==
    {[[BeneishBase EXCEPT ![f] = x] EXCEPT ![g] = y] :
        f \in DOMAIN BeneishBase, g \in DOMAIN BeneishBase,
        x \in {NaN, 0}, y \in {NaN, 0}}
    \cup {BeneishBase}

InitBeneish ==
    CallInit("beneish", [fn : {"_beneish_m_score"}, periods : {1, 2},
                         v : BeneishInputs])

CallBeneish ==
    /\ pc = "beneish"
    /\ ret' = _beneish_m_score(call.periods, call.v)
    /\ pc' = "returned"
    /\ UNCHANGED <<df, short_term, medium_term, long_term, mt_tier, lt_tier,
                   kelly, call>>

SpecBeneish == InitBeneish /\ [][CallBeneish]_vars

\* a ratio of the score has a zero denominator (the values being present)
BeneishZeroDenominator(v) ==
    \/ v.rev_t = 0 \/ v.rev_t1 = 0 \/ v.ta_t = 0 \/ v.ta_t1 = 0
    \/ v.recv_t1 = 0
    \/ v.rev_t - v.cogs_t = 0
    \/ v.ta_t1 - v.ca_t1 - v.ppe_t1 = 0
    \/ v.sga_t1 = 0
    \/ v.cl_t1 + fillna(v.ltd_t1, 0) = 0
    \/ /\ ~isna(v.da_t) /\ ~isna(v.da_t1)
       /\ (v.da_t + v.ppe_t = 0 \/ v.da_t1 + v.ppe_t1 = 0 \/ v.da_t = 0)

\* C16: _beneish_m_score returns missing when fewer than two annual periods
\* are available, a required field is missing or the denominator of one of
\* its ratios is zero (a score is returned with a neutral index only for the
\* depreciation index, and only when the depreciation data is absent).
C16_Original ==
    pc = "returned" =>
        /\ ~ret.raised
        /\ (\/ call.periods < 2
            \/ \E f \in BeneishRequired \cup {"cl_t", "cl_t1"} : isna(call.v[f])
            \/ BeneishZeroDenominator(call.v))
              => isna(ret.value)

(***************************************************************************)
(* _risk_metrics(hist).  hist is the set of its columns and the Close      *)
(* series; returns, volatility and drawdown are fixed-point numbers in     *)
(* ten-thousandths, the Sharpe ratio in thousandths.                       *)
(***************************************************************************)
_RISK_FREE_RATE == 400

_TRADING_DAYS == 252

MinHistory == 60

Unit == 10000

notna(v) == ~isna(v)

dropna(q) == SelectSeq(q, notna)

\* Series.pct_change().dropna()
pct_change(close) ==
    [i \in 1..(Len(close) - 1) |->
        RoundHalfEven(Unit * (close[i + 1] - close[i]), close[i])]

\* Series.mean()
mean(q) == RoundHalfEven(SumSeq(q), Len(q))

\* the integer square root, by bisection on lo..hi
RECURSIVE Bisect(_, _, _)
Bisect(v, lo, hi) ==
    IF lo = hi THEN lo
    ELSE LET mid == (lo + hi + 1) \div 2
         IN  IF mid * mid <= v THEN Bisect(v, mid, hi) ELSE Bisect(v, lo, mid - 1)

sqrt(v) == Bisect(v, 0, 46340)

\* Series.std() * sqrt(252): sample variance, annualised
ann_volatility(q) ==
    LET m  == mean(q)
        sq == [i \in 1..Len(q) |-> (q[i] - m) * (q[i] - m)]
    IN  sqrt(_TRADING_DAYS * RoundHalfEven(SumSeq(sq), Len(q) - 1))

\* x ** k for a fixed-point x, by repeated squaring; a power that has
\* rounded to zero stays zero
RECURSIVE Power(_, _)
Power(x, k) ==
    IF k = 0 THEN Unit
    ELSE LET h == Power(x, k \div 2)
         IN  IF h = 0 THEN 0
             ELSE LET sq == RoundHalfEven(h * h, Unit)
                  IN  IF k % 2 = 0 THEN sq ELSE RoundHalfEven(sq * x, Unit)

\* the guard dropped: the division by a zero volatility gives an infinity
SharpeNoGuard(ann_return, ann_vol) ==
    IF ann_vol # 0 THEN Milli(ann_return - _RISK_FREE_RATE, ann_vol)
    ELSE IF ann_return < _RISK_FREE_RATE THEN -2000000 ELSE 2000000

Sharpe(ann_return, ann_vol) ==
    IF ann_vol # 0 THEN Milli(ann_return - _RISK_FREE_RATE, ann_vol) ELSE NaN

\* close.cummax()[i]
cummax(close, i) == CHOOSE x \in {close[j] : j \in 1..i} : \A j \in 1..i : close[j] <= x

max_drawdown(close) ==
    Min({RoundHalfEven(Unit * (close[i] - cummax(close, i)), cummax(close, i)) :
            i \in 1..Len(close)})

AllMissing ==
    [Ann_Return |-> NaN, Ann_Volatility |-> NaN, Sharpe_Ratio |-> NaN,
     Max_Drawdown |-> NaN]

\* the minimum length tested on the series with its missing values
RiskMetricsCountAll(hist) ==
    IF "Close" \notin hist.columns \/ Len(hist.Close) < MinHistory
    THEN Returned(AllMissing)
    ELSE LET close == dropna(hist.Close)
             daily_returns == pct_change(close)
             ann_return == Power(Unit + mean(daily_returns), _TRADING_DAYS) - Unit
             ann_vol == ann_volatility(daily_returns)
         IN  Returned([Ann_Return |-> ann_return, Ann_Volatility |-> ann_vol,
                       Sharpe_Ratio |-> Sharpe(ann_return, ann_vol),
                       Max_Drawdown |-> max_drawdown(close)])

\* a missing Close column and a short series raise inside the try block and
\* the handler returns the four missing values
_risk_metrics(hist) ==
    IF "Close" \notin hist.columns \/ Len(dropna(hist.Close)) < MinHistory
    THEN Returned(AllMissing)
    ELSE LET close == dropna(hist.Close)
             daily_returns == pct_change(close)
             ann_return == Power(Unit + mean(daily_returns), _TRADING_DAYS) - Unit
             ann_vol == ann_volatility(daily_returns)
         IN  Returned([Ann_Return |-> ann_return, Ann_Volatility |-> ann_vol,
                       Sharpe_Ratio |-> Sharpe(ann_return, ann_vol),
                       Max_Drawdown |-> max_drawdown(close)])

MaxBars == 62

Shapes == {"flat", "up", "zigzag", "drop"}

\* n daily closes of a shape
Closes(shape, n) ==
    [i \in 1..n |->
        CASE shape = "flat" -> 100
          [] shape = "up" -> 100 + i
          [] shape = "zigzag" -> IF i % 2 = 1 THEN 100 ELSE 110
          [] shape = "drop" -> IF i <= 2 THEN 100 ELSE 80]

\* a history with k missing closes at its start, or without a Close column
Histories ==
    {[columns |-> {"Close"}, Close |-> [i \in 1..k |-> NaN] \o Closes(s, n)] :
        s \in Shapes, n \in 0..MaxBars, k \in {0, 2}}
    \cup {[columns |-> {}, Close |-> <<>>]}

InitRisk == CallInit("risk", [fn : {"_risk_metrics"}, hist : Histories])

CallRiskMetrics ==
    /\ pc = "risk"
    /\ ret' = _risk_metrics(call.hist)
    /\ pc' = "returned"
    /\ UNCHANGED <<df, short_term, medium_term, long_term, mt_tier, lt_tier,
                   kelly, call>>

SpecRisk == InitRisk /\ [][CallRiskMetrics]_vars

\* the number of non-missing closes of the history
Observations == Len(dropna(call.hist.Close))

\* C17: _risk_metrics never raises and returns all four outputs missing
\* whenever the close series has fewer than 60 non-missing observations.
C17_ShortHistory ==
    pc = "returned" =>
        /\ ~ret.raised
        /\ ("Close" \notin call.hist.columns \/ Observations < 60)
              => ret.value = AllMissing

\* 61 rows of which 59 are observations
C17_Witness ==
    /\ pc = "returned"
    /\ Len(call.hist.Close) = 61
    /\ Observations = 59
    /\ ret.value = AllMissing

FlatCloses ==
    /\ "Close" \in call.hist.columns
    /\ \A i \in DOMAIN call.hist.Close : call.hist.Close[i] = 100

FlatResult ==
    /\ ret.value.Ann_Volatility = 0
    /\ isna(ret.value.Sharpe_Ratio)
    /\ ret.value.Max_Drawdown = 0

\* C18 as stated: 40 bars of flat closes give annualized volatility 0,
\* Sharpe missing and max drawdown 0.
C18_Original ==
    (pc = "returned" /\ FlatCloses /\ Observations = 40) => FlatResult

\* C18 amended: 60 or more bars of flat closes give annualized volatility 0,
\* Sharpe missing and max drawdown 0; 40 flat bars are below the minimum
\* history and give all four outputs missing.
C18_FlatCloses ==
    (pc = "returned" /\ FlatCloses) =>
        /\ Observations >= 60 => (FlatResult /\ ret.value.Ann_Return = 0)
        /\ Observations = 40 => ret.value = AllMissing

C18_Witness ==
    /\ pc = "returned"
    /\ FlatCloses
    /\ Observations = 60
    /\ FlatResult

(***************************************************************************)
(* _intrinsic_value_graham(eps, growth, risk_free) and                     *)
(* _margin_of_safety(intrinsic, price).  eps, price and the intrinsic      *)
(* value are in hundredths, growth in hundredths, risk_free in             *)
(* ten-thousandths, the margin of safety in ten-thousandths.  None and NaN *)
(* are both the missing value.                                             *)
(***************************************************************************)
_DEFAULT_GROWTH == 5

\* the growth used without the clamp
GrowthNoClamp(growth) == fillna(growth, _DEFAULT_GROWTH)

\* growth = max(min(growth, 0.30), 0.0), after the default for a missing one
GrahamGrowth(growth) == clip(fillna(growth, _DEFAULT_GROWTH), 0, 30)

\* eps * (2 * growth * 100 + 8.5) * 4.4 / (risk_free * 100) is
\* GrahamNum / risk_free in hundredths
GrahamNum(eps, growth) == eps * (20 * GrahamGrowth(growth) + 85) * 44

\* num / den to the nearest unit, den # 0
Quotient(num, den) ==
    IF den < 0 THEN RoundHalfEven(-num, -den) ELSE RoundHalfEven(num, den)

\* risk_free = 0 raises ZeroDivisionError, which the function does not catch
_intrinsic_value_graham(eps, growth, risk_free) ==
    IF isna(eps) \/ eps <= 0 THEN Returned(NaN)
    ELSE IF risk_free = 0 THEN Raised
    ELSE IF (GrahamNum(eps, growth) > 0) = (risk_free > 0)
              /\ GrahamNum(eps, growth) # 0
         THEN Returned(Quotient(GrahamNum(eps, growth), risk_free))
         ELSE Returned(NaN)

_margin_of_safety(intrinsic, price) ==
    IF isna(intrinsic) \/ intrinsic <= 0 \/ isna(price) \/ price <= 0
    THEN Returned(NaN)
    ELSE Returned(RoundHalfEven(Unit * (intrinsic - price), intrinsic))

GrahamCalls ==
    [fn : {"_intrinsic_value_graham"}, eps : {NaN, -100, 0, 1, 500},
     growth : {NaN, -10, 0, 10, 30, 45}, risk_free : {-400, 0, 400, 409}]

MarginCalls ==
    [fn : {"_margin_of_safety"}, intrinsic : {NaN, -100, 0, 5000, 15675},
     price : {NaN, -1, 0, 10000}]

InitGraham == CallInit("graham", GrahamCalls \cup MarginCalls)

CallIntrinsicValue ==
    /\ pc = "graham"
    /\ call.fn = "_intrinsic_value_graham"
    /\ ret' = _intrinsic_value_graham(call.eps, call.growth, call.risk_free)
    /\ pc' = "returned"
    /\ UNCHANGED <<df, short_term, medium_term, long_term, mt_tier, lt_tier,
                   kelly, call>>

CallMarginOfSafety ==
    /\ pc = "graham"
    /\ call.fn = "_margin_of_safety"
    /\ ret' = _margin_of_safety(call.intrinsic, call.price)
    /\ pc' = "returned"
    /\ UNCHANGED <<df, short_term, medium_term, long_term, mt_tier, lt_tier,
                   kelly, call>>

NextGraham ==
    \/ CallIntrinsicValue
    \/ CallMarginOfSafety

SpecGraham == InitGraham /\ [][NextGraham]_vars

\* the growth of the claim: 5% when missing, clamped to [0, 0.30]
ClaimGrowth(growth) ==
    LET g == IF isna(growth) THEN 5 ELSE growth
    IN  IF g < 0 THEN 0 ELSE IF g > 30 THEN 30 ELSE g

McPaths == 3

McDays == 2

MaxCalls == 3

Seed == 42

default_rng(seed) == seed % 65537

\* the generator after one draw
Step(state) == (state * 75 + 74) % 65537

\* the standard normal variate drawn from a state, in whole deviations
Variate(state) == (state % 5) - 2

\* the states of the first k draws of a generator
RECURSIVE Stream(_, _)
Stream(state, k) ==
    IF k = 0 THEN <<>> ELSE <<Step(state)>> \o Stream(Step(state), k - 1)

\* Series.std(): NaN below two values
std(q) ==
    IF Len(q) < 2 THEN NaN
    ELSE LET m  == mean(q)
             sq == [i \in 1..Len(q) |-> (q[i] - m) * (q[i] - m)]
         IN  sqrt(RoundHalfEven(SumSeq(sq), Len(q) - 1))

\* np.percentile(x, 5) of the values of a sequence, times 100: linear
\* interpolation between the two lowest of fewer than 21 values
percentile5(x) ==
    LET n  == Len(x)
        lo == CHOOSE i \in 1..n : \A j \in 1..n : x[i] <= x[j]
        s1 == x[lo]
        s2 == IF n = 1 THEN s1
              ELSE Min({x[j] : j \in (1..n) \ {lo}})
    IN  (100 - 5 * (n - 1)) * s1 + 5 * (n - 1) * s2

abs(v) == IF v < 0 THEN -v ELSE v

\* the simulation from a generator state: the value, and the generator after
\* its McPaths * McDays draws.  The terminal return exp(sum) - 1 is
\* increasing in the sum of the shocks, which stands for it.
Simulate(mu, sig, rng) ==
    LET states == Stream(rng, McPaths * McDays)
        shocks == [p \in 1..McPaths |->
                     [d \in 1..McDays |->
                        mu + sig * Variate(states[(p - 1) * McDays + d])]]
        terminal_returns == [p \in 1..McPaths |-> SumSeq(shocks[p])]
    IN  [value |-> abs(percentile5(terminal_returns)),
         rng |-> states[McPaths * McDays]]

\* the simulation drawing from the process-wide generator
MonteCarloSharedGenerator(log_returns, np_random) ==
    LET mu  == IF log_returns = <<>> THEN NaN ELSE mean(log_returns)
        sig == std(log_returns)
    IN  IF isna(mu) \/ isna(sig) \/ sig = 0
        THEN [value |-> 0, np_random |-> np_random]
        ELSE LET sim == Simulate(mu, sig, np_random)
             IN  [value |-> sim.value, np_random |-> sim.rng]

\* the value returned and the process-wide generator after the call
_monte_carlo_var(log_returns, np_random) ==
    LET mu  == IF log_returns = <<>> THEN NaN ELSE mean(log_returns)
        sig == std(log_returns)
    IN  IF isna(mu) \/ isna(sig) \/ sig = 0
        THEN [value |-> 0, np_random |-> np_random]
        ELSE [value |-> Simulate(mu, sig, default_rng(Seed)).value,
              np_random |-> np_random]

LogReturns == {<<>>, <<100>>, <<0, 0>>, <<-100, 200>>, <<0, 200, 100>>}

\* ret.results is the log of the calls made so far
InitMonteCarlo ==
    /\ pc = "mc"
    /\ call = None
    /\ ret = [results |-> <<>>, np_random |-> 7]
    /\ df = <<>>
    /\ short_term = {}
    /\ medium_term = {}
    /\ long_term = {}
    /\ mt_tier = 0
    /\ lt_tier = 0
    /\ kelly = None

CallMonteCarlo ==
    /\ pc = "mc"
    /\ Len(ret.results) < MaxCalls
    /\ \E log_returns \in LogReturns :
          LET r == _monte_carlo_var(log_returns, ret.np_random)
          IN  /\ call' = [fn |-> "_monte_carlo_var", log_returns |-> log_returns]
              /\ ret' = [results |-> Append(ret.results,
                                            [log_returns |-> log_returns,
                                             value |-> r.value]),
                         np_random |-> r.np_random]
    /\ UNCHANGED <<pc, df, short_term, medium_term, long_term, mt_tier, lt_tier,
                   kelly>>

SpecMonteCarlo == InitMonteCarlo /\ [][CallMonteCarlo]_vars

\* C20: two calls of _monte_carlo_var with the same log-return series return
\* the same value, whatever calls were made in between.
C20_Deterministic ==
    pc = "mc" =>
        \A i, j \in DOMAIN ret.results :
            ret.results[i].log_returns = ret.results[j].log_returns
               => ret.results[i].value = ret.results[j].value

\* two simulations of one series around a simulation of another
C20_Witness ==
    /\ pc = "mc"
    /\ Len(ret.results) = 3
    /\ ret.results[1].log_returns = ret.results[3].log_returns
    /\ ret.results[1].log_returns # ret.results[2].log_returns
    /\ ret.results[1].value # 0
    /\ ret.results[2].value # 0
    /\ ret.results[1].value = ret.results[3].value

(***************************************************************************)
(* 03_quant_risk_models.py: the benchmark return series behind _beta.      *)
(* A return series is a sequence over the dates 1..BetaDays, NaN on a date *)
(* the series has no row for; the empty Series has no row at all.  ret     *)
(* holds the module global _SPY_RETURNS_CACHE as a sequence of zero (None) *)
(* or one series, the number of benchmark downloads made so far, and what  *)
(* each call saw.                                                          *)
(***************************************************************************)
BetaDays == 31

MinAligned == 30

Dates == 1..BetaDays

EmptySeries == [d \in Dates |-> NaN]

\* yf.Ticker("SPY").history(period="1y")["Close"].pct_change().dropna(), or
\* the empty Series of the except branch
FetchSpy(outcome) == IF outcome.raised THEN EmptySeries ELSE outcome.value

\* a _get_spy_returns that downloads on every call
GetSpyReturnsNoCache(cache, outcome) ==
    [cache |-> <<FetchSpy(outcome)>>, fetched |-> TRUE, value |-> FetchSpy(outcome)]

\* _get_spy_returns run without interruption: the cache after the call,
\* whether the benchmark was downloaded, and the series returned
_get_spy_returns(cache, outcome) ==
    IF cache = <<>>
    THEN [cache |-> <<FetchSpy(outcome)>>, fetched |-> TRUE, value |-> FetchSpy(outcome)]
    ELSE [cache |-> cache, fetched |-> FALSE, value |-> cache[1]]

\* pd.concat([stock_returns, spy_ret], axis=1).dropna(): the dates both have
aligned(stock_returns, spy_ret) ==
    SelectSeq([d \in Dates |-> d],
              LAMBDA d : notna(stock_returns[d]) /\ notna(spy_ret[d]))

\* round(cov / var, 3) in thousandths; the n - 1 of the sample covariance and
\* of the sample variance cancel
_beta(stock_returns, spy_ret) ==
    LET al  == aligned(stock_returns, spy_ret)
        n   == Len(al)
        sx  == SumSeq([k \in 1..n |-> stock_returns[al[k]]])
        sy  == SumSeq([k \in 1..n |-> spy_ret[al[k]]])
        sxy == SumSeq([k \in 1..n |-> stock_returns[al[k]] * spy_ret[al[k]]])
        syy == SumSeq([k \in 1..n |-> spy_ret[al[k]] * spy_ret[al[k]]])
        cov == n * sxy - sx * sy
        var == n * syy - sy * sy
    IN  IF n < MinAligned THEN NaN
        ELSE IF var # 0 THEN Milli(cov, var) ELSE NaN

\* daily returns in percent, the first lead dates missing
Zig(lead, a, b) ==
    [d \in Dates |-> IF d <= lead THEN NaN ELSE IF d % 2 = 0 THEN a ELSE b]

StockReturns == {Zig(0, 2, -1), Zig(0, -3, 1), Zig(2, 2, -1), Zig(0, 1, 1)}

SpyOutcomes ==
    {Returned(Zig(0, 1, -1)), Returned(Zig(1, 2, 0)), Returned(Zig(0, 1, 1)), Raised}

InitBeta ==
    /\ pc = "beta"
    /\ call = None
    /\ ret = [cache |-> <<>>, fetches |-> 0, seen |-> <<>>]
    /\ df = <<>>
    /\ short_term = {}
    /\ medium_term = {}
    /\ long_term = {}
    /\ mt_tier = 0
    /\ lt_tier = 0
    /\ kelly = None

\* one call of _beta by the sequential loop of run_quant_models
CallBeta ==
    /\ pc = "beta"
    /\ Len(ret.seen) < MaxCalls
    /\ \E stock_returns \in StockReturns, outcome \in SpyOutcomes :
          LET r == _get_spy_returns(ret.cache, outcome)
          IN  /\ call' = [fn |-> "_beta", stock_returns |-> stock_returns]
              /\ ret' = [cache |-> r.cache,
                         fetches |-> ret.fetches + (IF r.fetched THEN 1 ELSE 0),
                         seen |-> Append(ret.seen,
                                         [spy_ret |-> r.value,
                                          fetched |-> r.fetched,
                                          beta |-> _beta(stock_returns, r.value)])]
    /\ UNCHANGED <<pc, df, short_term, medium_term, long_term, mt_tier, lt_tier,
                   kelly>>

SpecBeta == InitBeta /\ [][CallBeta]_vars

\* C21: over a sequence of _beta calls the benchmark is downloaded at most
\* once, by the first call; every call sees the series the first call cached
\* and the cache keeps holding that series.
C21_FetchedOnce ==
    pc = "beta" =>
        /\ ret.fetches = (IF ret.seen = <<>> THEN 0 ELSE 1)
        /\ (ret.cache = <<>>) = (ret.seen = <<>>)
        /\ \A i \in DOMAIN ret.seen :
              /\ ret.seen[i].fetched = (i = 1)
              /\ ret.seen[i].spy_ret = ret.seen[1].spy_ret
              /\ ret.cache = <<ret.seen[1].spy_ret>>

\* three calls on a downloaded benchmark, the last two with a beta
C21_Witness ==
    /\ pc = "beta"
    /\ Len(ret.seen) = 3
    /\ ret.seen[1].spy_ret # EmptySeries
    /\ ret.seen[2].beta # NaN
    /\ ret.seen[3].beta # NaN
    /\ ret.seen[2].beta # ret.seen[3].beta

(***************************************************************************)
(* _get_spy_returns called by NThreads threads at once.  The function      *)
(* takes no lock: a thread tests the global, downloads, assigns the        *)
(* global, and reads the global again for its return value, and another    *)
(* thread may run between any two of these steps (the download releases    *)
(* the interpreter lock).  ret.th[t] is thread t: its position, the series *)
(* it has downloaded and the series it returned.                           *)
(***************************************************************************)
NThreads == 2

Threads == 1..NThreads

InitBetaPar ==
    /\ pc = "beta_par"
    /\ call \in [Threads -> StockReturns]
    /\ ret = [cache |-> <<>>, fetches |-> 0,
              th |-> [t \in Threads |->
                         [at |-> "test", spy |-> EmptySeries,
                          spy_ret |-> EmptySeries, beta |-> NaN]]]
    /\ df = <<>>
    /\ short_term = {}
    /\ medium_term = {}
    /\ long_term = {}
    /\ mt_tier = 0
    /\ lt_tier = 0
    /\ kelly = None

ThreadStep(t, th, cache, fetches) ==
    /\ ret' = [cache |-> cache, fetches |-> fetches,
               th |-> [ret.th EXCEPT ![t] = th]]
    /\ UNCHANGED <<pc, call, df, short_term, medium_term, long_term, mt_tier,
                   lt_tier, kelly>>

\* if _SPY_RETURNS_CACHE is None
TestCache(t) ==
    /\ pc = "beta_par"
    /\ ret.th[t].at = "test"
    /\ ThreadStep(t, [ret.th[t] EXCEPT !.at = IF ret.cache = <<>> THEN "fetch"
                                                ELSE "return"],
                  ret.cache, ret.fetches)

\* the download, or the exception it raises
Fetch(t) ==
    /\ pc = "beta_par"
    /\ ret.th[t].at = "fetch"
    /\ \E outcome \in SpyOutcomes :
          ThreadStep(t, [ret.th[t] EXCEPT !.at = "assign", !.spy = FetchSpy(outcome)],
                     ret.cache, ret.fetches + 1)

\* _SPY_RETURNS_CACHE = ...
AssignCache(t) ==
    /\ pc = "beta_par"
    /\ ret.th[t].at = "assign"
    /\ ThreadStep(t, [ret.th[t] EXCEPT !.at = "return"],
                  <<ret.th[t].spy>>, ret.fetches)

\* return _SPY_RETURNS_CACHE, and the rest of _beta
ReturnCache(t) ==
    /\ pc = "beta_par"
    /\ ret.th[t].at = "return"
    /\ ThreadStep(t, [ret.th[t] EXCEPT !.at = "done", !.spy_ret = ret.cache[1],
                                       !.beta = _beta(call[t], ret.cache[1])],
                  ret.cache, ret.fetches)

NextBetaPar ==
    \E t \in Threads : TestCache(t) \/ Fetch(t) \/ AssignCache(t) \/ ReturnCache(t)

SpecBetaPar == InitBetaPar /\ [][NextBetaPar]_vars

DivBars == 16

window == 14

\* Series.iloc[-w:]
iloc_last(q, w) == SubSeq(q, IF Len(q) > w THEN Len(q) - w + 1 ELSE 1, Len(q))

\* the value at Series.idxmin(), which skips NaN
low(q) == Min({q[i] : i \in {j \in DOMAIN q : notna(q[j])}})

all_isna(q) == \A i \in DOMAIN q : isna(q[i])

_bullish_divergence(close, stoch_k) ==
    LET price_window == iloc_last(close, window)
        stoch_window == iloc_last(stoch_k, window)
    IN  IF all_isna(price_window) \/ all_isna(stoch_window) THEN FALSE
        ELSE LET price_earlier_low == price_window[1]
                 stoch_earlier_low == stoch_window[1]
                 price_recent_low  == low(price_window)
                 stoch_recent_low  == low(stoch_window)
             IN  /\ gt(price_earlier_low, price_recent_low)
                 /\ gt(stoch_recent_low, stoch_earlier_low)

Bars == 1..DivBars

DivShapes == {"fall", "rise", "vee", "flat", "dip", "peak"}

Bar(shape, i) ==
    CASE shape = "fall" -> 80 - 2 * i
      [] shape = "rise" -> 20 + 2 * i
      [] shape = "vee"  -> 30 + 3 * abs(i - 10)
      [] shape = "flat" -> 50
      [] shape = "dip"  -> IF i = DivBars - 1 THEN 30 ELSE 50
      [] shape = "peak" -> IF i = DivBars - 1 THEN 70 ELSE 50

DivSeries ==
    { [i \in Bars |-> IF i <= lead THEN NaN ELSE Bar(shape, i)] :
        shape \in DivShapes, lead \in {0, 4, DivBars} }

DivCalls == [fn : {"_bullish_divergence"}, close : DivSeries, stoch_k : DivSeries]

InitDivergence == CallInit("divergence", DivCalls)

CallBullishDivergence ==
    /\ pc = "divergence"
    /\ ret' = _bullish_divergence(call.close, call.stoch_k)
    /\ pc' = "returned"
    /\ UNCHANGED <<call, df, short_term, medium_term, long_term, mt_tier,
                   lt_tier, kelly>>

SpecDivergence == InitDivergence /\ [][CallBullishDivergence]_vars

\* the pattern of the claim on the last window bars: the lowest price after
\* the window's first bar is below that bar's price while the lowest %K
\* after the first bar is above that bar's %K
LowerLowHigherLow(close, stoch_k) ==
    LET pw == iloc_last(close, window)
        sw == iloc_last(stoch_k, window)
    IN  /\ \A i \in DOMAIN pw : notna(pw[i])
        /\ \A i \in DOMAIN sw : notna(sw[i])
        /\ Len(pw) > 1 /\ Len(sw) > 1
        /\ low(Tail(pw)) < pw[1]
        /\ low(Tail(sw)) > sw[1]

\* C23 as stated: _bullish_divergence returns true exactly when, within the
\* last 14 bars, price makes a lower low while the oscillator's low is higher
\* than its earlier low, and false otherwise.
C23_Original ==
    pc = "returned" => ret = LowerLowHigherLow(call.close, call.stoch_k)

\* _bullish_divergence returns true on no input: the lowest %K of the window
\* is never above the window's first %K
DivergenceNeverTrue == pc = "returned" => ~ret

(***************************************************************************)
(* 03_technicals.py: _technical_score.  Prices, the relative volume and    *)
(* the oscillator are in hundredths; the score is in points, a sum of      *)
(* whole numbers that round(score, 2) returns unchanged.                   *)
(***************************************************************************)
lt(a, b) == ~isna(a) /\ ~isna(b) /\ a < b

ge(a, b) == ~isna(a) /\ ~isna(b) /\ a >= b

\* a score whose breakout branch does not look at the relative volume
TechnicalScoreAnyBreakout(close, sma50, sma200, bb_lower, bb_upper, rel_vol, stoch_k, stoch_d) ==
    LET near_lower == ~isna(close) /\ 100 * close <= 102 * bb_lower
        breakout   == ge(close, bb_upper)
        oversold_bounce == lt(stoch_k, 20 * 100) /\ gt(stoch_k, stoch_d)
        bullish_cross   == gt(stoch_k, stoch_d) /\ lt(stoch_k, 80 * 100)
    IN  (IF ~isna(sma50) /\ gt(close, sma50) THEN 20 ELSE 0)
        + (IF ~isna(sma200) /\ gt(close, sma200) THEN 20 ELSE 0)
        + (IF ~isna(bb_lower) /\ ~isna(bb_upper) /\ (near_lower \/ breakout)
           THEN 15 ELSE 0)
        + (IF ~isna(rel_vol) /\ rel_vol > 120 THEN 25 ELSE 0)
        + (IF ~isna(stoch_k) /\ ~isna(stoch_d) /\ (oversold_bounce \/ bullish_cross)
           THEN 10 ELSE 0)

_technical_score(close, sma50, sma200, bb_lower, bb_upper, rel_vol, stoch_k, stoch_d) ==
    LET near_lower == ~isna(close) /\ 100 * close <= 102 * bb_lower
        breakout   == ge(close, bb_upper) /\ ~isna(rel_vol) /\ rel_vol > 120
        oversold_bounce == lt(stoch_k, 20 * 100) /\ gt(stoch_k, stoch_d)
        bullish_cross   == gt(stoch_k, stoch_d) /\ lt(stoch_k, 80 * 100)
    IN  (IF ~isna(sma50) /\ gt(close, sma50) THEN 20 ELSE 0)
        + (IF ~isna(sma200) /\ gt(close, sma200) THEN 20 ELSE 0)
        + (IF ~isna(bb_lower) /\ ~isna(bb_upper) /\ (near_lower \/ breakout)
           THEN 15 ELSE 0)
        + (IF ~isna(rel_vol) /\ rel_vol > 120 THEN 25 ELSE 0)
        + (IF ~isna(stoch_k) /\ ~isna(stoch_d) /\ (oversold_bounce \/ bullish_cross)
           THEN 10 ELSE 0)

TechnicalCalls ==
    [fn : {"_technical_score"},
     close : {NaN, 9000, 10000, 10200, 10300, 12000, 12500},
     sma50 : {NaN, 9500, 10200},
     sma200 : {NaN, 10100},
     bb_lower : {NaN, 10000},
     bb_upper : {NaN, 12000},
     rel_vol : {NaN, 120, 121},
     stoch_k : {NaN, 1000, 5000, 8000},
     stoch_d : {NaN, 500, 6000}]

InitTechnical == CallInit("technical", TechnicalCalls)

CallTechnicalScore ==
    /\ pc = "technical"
    /\ ret' = _technical_score(call.close, call.sma50, call.sma200, call.bb_lower,
                               call.bb_upper, call.rel_vol, call.stoch_k,
                               call.stoch_d)
    /\ pc' = "returned"
    /\ UNCHANGED <<call, df, short_term, medium_term, long_term, mt_tier,
                   lt_tier, kelly>>

SpecTechnical == InitTechnical /\ [][CallTechnicalScore]_vars

Present(fields) == \A f \in fields : call[f] # NaN

\* the points of the rules other than the band rule, each rule counting only
\* when all of its inputs are present
OtherRules ==
    (IF Present({"close", "sma50"}) /\ call.close > call.sma50 THEN 20 ELSE 0)
    + (IF Present({"close", "sma200"}) /\ call.close > call.sma200 THEN 20 ELSE 0)
    + (IF Present({"rel_vol"}) /\ call.rel_vol > 120 THEN 25 ELSE 0)
    + (IF Present({"stoch_k", "stoch_d"})
          /\ \/ (call.stoch_k < 2000 /\ call.stoch_k > call.stoch_d)
             \/ (call.stoch_k > call.stoch_d /\ call.stoch_k < 8000)
       THEN 10 ELSE 0)

HighVolume == Present({"rel_vol"}) /\ call.rel_vol > 120

XCols == {"ROE_x", "Last_Price_x"}

YCols == {"ROE_y", "Last_Price_y"}

\* col[:-2]
Base(col) ==
    CASE col \in {"ROE_x", "ROE_y"} -> "ROE"
      [] col \in {"Last_Price_x", "Last_Price_y"} -> "Last_Price"
      [] OTHER -> col

\* base + "_y"
YCol(base) == IF base = "ROE" THEN "ROE_y" ELSE "Last_Price_y"

DataFrame(columns, rows) == [columns |-> columns, rows |-> rows]

ColumnsOf(d) == {d.columns[k] : k \in DOMAIN d.columns}

\* df[c] = vals
assign(d, c, vals) ==
    DataFrame(IF c \in ColumnsOf(d) THEN d.columns ELSE Append(d.columns, c),
              [i \in DOMAIN d.rows |-> (c :> vals[i]) @@ d.rows[i]])

\* df.drop(columns=S)
drop(d, S) ==
    DataFrame(SelectSeq(d.columns, LAMBDA c : c \notin S),
              [i \in DOMAIN d.rows |->
                  [c \in DOMAIN d.rows[i] \ S |-> d.rows[i][c]]])

\* df.rename(columns={a: b}); renaming an absent column changes nothing
rename(d, a, b) ==
    IF a \notin ColumnsOf(d) THEN d
    ELSE DataFrame([k \in DOMAIN d.columns |->
                       IF d.columns[k] = a THEN b ELSE d.columns[k]],
                   [i \in DOMAIN d.rows |->
                       [c \in (DOMAIN d.rows[i] \ {a}) \cup {b} |->
                           IF c = b THEN d.rows[i][a] ELSE d.rows[i][c]]])

\* Series.combine_first on one value
combine_first(a, b) == IF isna(a) THEN b ELSE a

\* a resolution of the pair that keeps _x when both exist
CleanStepKeepX(d, col) ==
    IF col \in XCols
    THEN IF YCol(Base(col)) \in ColumnsOf(d)
         THEN drop(assign(d, Base(col),
                          [i \in DOMAIN d.rows |->
                              combine_first(d.rows[i][col],
                                            d.rows[i][YCol(Base(col))])]),
                   {col, YCol(Base(col))})
         ELSE rename(d, col, Base(col))
    ELSE IF col \in YCols /\ Base(col) \notin ColumnsOf(d)
    THEN rename(d, col, Base(col))
    ELSE d

\* the body of the for loop of _clean_columns for one column
CleanStep(d, col) ==
    IF col \in XCols
    THEN IF YCol(Base(col)) \in ColumnsOf(d)
         THEN drop(assign(d, Base(col),
                          [i \in DOMAIN d.rows |->
                              combine_first(d.rows[i][YCol(Base(col))],
                                            d.rows[i][col])]),
                   {col, YCol(Base(col))})
         ELSE rename(d, col, Base(col))
    ELSE IF col \in YCols /\ Base(col) \notin ColumnsOf(d)
    THEN rename(d, col, Base(col))
    ELSE d

\* for col in list(df.columns)
RECURSIVE CleanLoop(_, _)
CleanLoop(d, cols) ==
    IF cols = <<>> THEN d ELSE CleanLoop(CleanStep(d, Head(cols)), Tail(cols))

\* the Last_Price fallback loop
RECURSIVE LastPriceFallback(_, _)
LastPriceFallback(d, fallbacks) ==
    IF fallbacks = <<>> THEN d
    ELSE IF Head(fallbacks) \in ColumnsOf(d)
    THEN assign(d, "Last_Price", [i \in DOMAIN d.rows |-> d.rows[i][Head(fallbacks)]])
    ELSE LastPriceFallback(d, Tail(fallbacks))

_clean_columns(d) ==
    LET cleaned == CleanLoop(d, d.columns)
    IN  IF "Last_Price" \notin ColumnsOf(cleaned)
        THEN LastPriceFallback(cleaned, <<"VWAP", "Last_Price_y", "Last_Price_x">>)
        ELSE cleaned

\* src.drop_duplicates(subset="ticker", keep="first")
drop_duplicates(src) ==
    DataFrame(src.columns,
              SelectSeq([i \in DOMAIN src.rows |-> [at |-> i, row |-> src.rows[i]]],
                        LAMBDA e : \A j \in 1..(e.at - 1) :
                                      src.rows[j].ticker # e.row.ticker))

\* pool["ticker"].map(lookup[col]) for one ticker; drop_duplicates leaves the
\* row with the original row, hence the .row
map_lookup(src_dedup, ticker, col) ==
    LET hits == {i \in DOMAIN src_dedup.rows : src_dedup.rows[i].row.ticker = ticker}
    IN  IF hits = {} THEN NaN ELSE src_dedup.rows[CHOOSE i \in hits : TRUE].row[col]

\* pool.merge(src_dedup[["ticker"] + new_cols], on="ticker", how="left")
RECURSIVE merge_left(_, _, _)
merge_left(pool, src_dedup, new_cols) ==
    IF new_cols = <<>> THEN pool
    ELSE merge_left(assign(pool, Head(new_cols),
                           [i \in DOMAIN pool.rows |->
                               map_lookup(src_dedup, pool.rows[i].ticker, Head(new_cols))]),
                    src_dedup, Tail(new_cols))

\* the fill of the NaN of the existing columns
RECURSIVE fill_from(_, _, _)
fill_from(pool, src_dedup, fill_cols) ==
    IF fill_cols = <<>> THEN pool
    ELSE fill_from(assign(pool, Head(fill_cols),
                          [i \in DOMAIN pool.rows |->
                              combine_first(pool.rows[i][Head(fill_cols)],
                                            map_lookup(src_dedup, pool.rows[i].ticker,
                                                       Head(fill_cols)))]),
                   src_dedup, Tail(fill_cols))

\* the body of the for loop of _enrich for one source
EnrichStep(pool, src) ==
    IF src.rows = <<>> \/ "ticker" \notin ColumnsOf(src) THEN pool
    ELSE LET src_dedup == drop_duplicates(src)
             new_cols  == SelectSeq(src.columns,
                              LAMBDA c : c \notin ColumnsOf(pool) /\ c # "ticker")
             merged    == merge_left(pool, src_dedup, new_cols)
             fill_cols == SelectSeq(src.columns,
                              LAMBDA c : /\ c \in ColumnsOf(merged)
                                         /\ c # "ticker"
                                         /\ \E i \in DOMAIN merged.rows :
                                               isna(merged.rows[i][c]))
         IN  fill_from(merged, src_dedup, fill_cols)

RECURSIVE EnrichLoop(_, _)
EnrichLoop(pool, sources) ==
    IF sources = <<>> THEN pool
    ELSE EnrichLoop(EnrichStep(pool, Head(sources)), Tail(sources))

_enrich(pool, sources) == _clean_columns(EnrichLoop(pool, sources))

(***************************************************************************)
(* The three calls of _enrich in run_portfolio_allocator, each table named *)
(* by the position in _PIPELINE of the stage that writes it: fundamentals  *)
(* 3, deep valuation 4, quant risk 6, narrative 9.  A value of the shared  *)
(* attribute ROE written by stage s is 10 * s, so the origin of a merged   *)
(* value can be read off it; the _x half of a pair is 10 * s - 1.          *)
(***************************************************************************)
EnrichSites ==
    { [pool_stage |-> 9, source_stages |-> <<3, 4, 6>>],
      [pool_stage |-> 6, source_stages |-> <<3, 4>>],
      [pool_stage |-> 4, source_stages |-> <<3, 6>>] }

MaybeValue(v) == {NaN, v}

PoolRows(s, shape) ==
    CASE shape = "none" -> { <<a, b>> : a \in {[ticker |-> 1, VWAP |-> 5]},
                                         b \in {[ticker |-> 2, VWAP |-> 5]} }
      [] shape = "base" ->
           { << [ticker |-> 1, VWAP |-> 5, ROE |-> a],
                [ticker |-> 2, VWAP |-> 5, ROE |-> b] >> :
               a \in MaybeValue(10 * s), b \in MaybeValue(10 * s) }
      [] shape = "pair" ->
           { << [ticker |-> 1, VWAP |-> 5, ROE_x |-> ax, ROE_y |-> ay],
                [ticker |-> 2, VWAP |-> 5, ROE_x |-> 10 * s - 1, ROE_y |-> by] >> :
               ax \in MaybeValue(10 * s - 1), ay \in MaybeValue(10 * s),
               by \in MaybeValue(10 * s) }

PoolColumns(shape) ==
    CASE shape = "none" -> <<"ticker", "VWAP">>
      [] shape = "base" -> <<"ticker", "VWAP", "ROE">>
      [] shape = "pair" -> <<"ticker", "VWAP", "ROE_x", "ROE_y">>

PoolTables(s) ==
    UNION { { DataFrame(PoolColumns(shape), rows) : rows \in PoolRows(s, shape) } :
            shape \in {"none", "base", "pair"} }

\* a source: a file that is missing, or rows with a missing value or with a
\* ticker listed twice
SourceTables(s) ==
    { DataFrame(<<>>, <<>>),
      DataFrame(<<"ticker", "ROE">>, << [ticker |-> 1, ROE |-> 10 * s] >>),
      DataFrame(<<"ticker", "ROE">>,
                << [ticker |-> 1, ROE |-> NaN], [ticker |-> 2, ROE |-> 10 * s] >>),
      DataFrame(<<"ticker", "ROE">>,
                << [ticker |-> 1, ROE |-> NaN], [ticker |-> 1, ROE |-> 10 * s],
                   [ticker |-> 2, ROE |-> 10 * s] >>) }

SourceLists(stages) ==
    { q \in [DOMAIN stages -> UNION {SourceTables(stages[k]) : k \in DOMAIN stages}] :
        \A k \in DOMAIN stages : q[k] \in SourceTables(stages[k]) }

EnrichCalls ==
    UNION { [fn : {"_enrich"}, site : {site}, pool : PoolTables(site.pool_stage),
             sources : SourceLists(site.source_stages)] : site \in EnrichSites }

InitEnrich == CallInit("enrich", EnrichCalls)

CallEnrich ==
    /\ pc = "enrich"
    /\ ret' = _enrich(call.pool, call.sources)
    /\ pc' = "returned"
    /\ UNCHANGED <<call, df, short_term, medium_term, long_term, mt_tier,
                   lt_tier, kelly>>

SpecEnrich == InitEnrich /\ [][CallEnrich]_vars

\* the value of attribute col the table d holds for a ticker, an _x/_y pair
\* not resolved
ValueIn(d, ticker, col) ==
    IF d.rows = <<>> \/ col \notin ColumnsOf(d) THEN NaN
    ELSE map_lookup(drop_duplicates(d), ticker, col)

\* the merged value of ROE for row i of the pool
Merged(i) == IF "ROE" \in ColumnsOf(ret) THEN ret.rows[i].ROE ELSE NaN

\* the stage-tagged values of ROE for row i of the pool; the _x half of a
\* pair is the left, earlier table of the merge that made the pair
StageValues(i) ==
    LET t == call.pool.rows[i].ticker
    IN  { [stage |-> 10 * call.site.pool_stage - 1, value |-> ValueIn(call.pool, t, "ROE_x")],
          [stage |-> 10 * call.site.pool_stage,
           value |-> combine_first(ValueIn(call.pool, t, "ROE_y"),
                                   ValueIn(call.pool, t, "ROE"))] }
        \cup { [stage |-> 10 * call.site.source_stages[k],
                value |-> ValueIn(call.sources[k], t, "ROE")] :
               k \in DOMAIN call.sources }

\* the value of the latest stage that has one
LatestValue(i) ==
    LET present == {e \in StageValues(i) : notna(e.value)}
    IN  IF present = {} THEN NaN
        ELSE (CHOOSE e \in present : \A f \in present : f.stage <= e.stage).value

\* C25 as stated: the merged value of a shared attribute is the later
\* stage's value whenever that value is non-missing, and an earlier stage's
\* value only when every later stage's value is missing.
C25_Original ==
    pc = "returned" => \A i \in DOMAIN call.pool.rows : Merged(i) = LatestValue(i)

\* the first non-missing value of ROE for a ticker in a list of sources
RECURSIVE FirstValue(_, _)
FirstValue(sources, ticker) ==
    IF sources = <<>> THEN NaN
    ELSE combine_first(ValueIn(Head(sources), ticker, "ROE"),
                       FirstValue(Tail(sources), ticker))

\* C25: _clean_columns resolves an _x/_y pair to the _y value when it is
\* non-missing and to the _x value otherwise, whatever the sources hold;
\* without a pair _enrich keeps the pool's own non-missing value and fills a
\* missing one from the first source, in argument order, that has a value
\* for the ticker.
C25_MergePrecedence ==
    pc = "returned" =>
        \A i \in DOMAIN call.pool.rows :
            LET t == call.pool.rows[i].ticker
            IN  Merged(i) =
                  IF "ROE_x" \in ColumnsOf(call.pool)
                  THEN combine_first(call.pool.rows[i].ROE_y, call.pool.rows[i].ROE_x)
                  ELSE combine_first(ValueIn(call.pool, t, "ROE"),
                                     FirstValue(call.sources, t))

\* the long pool: deep valuation holds 40 for ticker 2, quant risk 60, and
\* the merged value is the pool's 40
C25_Witness ==
    /\ pc = "returned"
    /\ call.site.pool_stage = 4
    /\ ValueIn(call.pool, 2, "ROE") = 40
    /\ ValueIn(call.sources[2], 2, "ROE") = 60
    /\ Merged(2) = 40

(***************************************************************************)
(* run_fund.py: main.  ret holds the loop index, the scripts started so    *)
(* far, how each of them ended, whether the success banner was printed and *)
(* the exit code of the pipeline process (NoField while it runs).          *)
(***************************************************************************)
_PIPELINE ==
    << "01_macro_and_universe.py", "01_data_loader.py", "02_fundamentals.py",
       "02_deep_valuation.py", "03_technicals.py", "03_quant_risk_models.py",
       "04_sentiment_and_export.py", "04_event_driven.py",
       "04_perplexity_narrative.py", "05_portfolio_allocator.py" >>

_TOTAL == Len(_PIPELINE)

\* the largest exit code a stage is given
MaxExit == 9

Exited(code) == [kind |-> "exit", code |-> code]

NotFound == [kind |-> "FileNotFoundError", code |-> 0]

InitMain ==
    /\ pc = "for"
    /\ call = None
    /\ ret = [idx |-> 1, started |-> <<>>, ended |-> <<>>, banner |-> FALSE,
              exit_code |-> NoField]
    /\ df = <<>>
    /\ short_term = {}
    /\ medium_term = {}
    /\ long_term = {}
    /\ mt_tier = 0
    /\ lt_tier = 0
    /\ kelly = None

\* an except branch that reports the error and goes on with the next stage
ExceptContinue(r, how) ==
    [pc |-> IF r.idx = _TOTAL THEN "banner" ELSE "for",
     ret |-> [r EXCEPT !.ended = Append(@, how), !.idx = @ + 1]]

\* both except branches: the error box, then sys.exit(1)
Except(r, how) ==
    [pc |-> "exited", ret |-> [r EXCEPT !.ended = Append(@, how), !.exit_code = 1]]

MainStep(next) ==
    /\ pc' = next.pc
    /\ ret' = next.ret
    /\ UNCHANGED <<call, df, short_term, medium_term, long_term, mt_tier,
                   lt_tier, kelly>>

\* _step_header and the start of subprocess.run
StartStage ==
    /\ pc = "for"
    /\ MainStep([pc |-> "subprocess",
                 ret |-> [ret EXCEPT !.started = Append(@, _PIPELINE[ret.idx])]])

\* the script exits with code 0
StageDone ==
    /\ pc = "subprocess"
    /\ MainStep([pc |-> IF ret.idx = _TOTAL THEN "banner" ELSE "for",
                 ret |-> [ret EXCEPT !.ended = Append(@, Exited(0)), !.idx = @ + 1]])

\* check=True raises CalledProcessError on a non-zero exit code
StageFailed ==
    /\ pc = "subprocess"
    /\ \E code \in 1..MaxExit : MainStep(Except(ret, Exited(code)))

\* subprocess.run raises FileNotFoundError
StageNotFound ==
    /\ pc = "subprocess"
    /\ MainStep(Except(ret, NotFound))

\* _success_banner, and the return of main
SuccessBanner ==
    /\ pc = "banner"
    /\ MainStep([pc |-> "exited", ret |-> [ret EXCEPT !.banner = TRUE, !.exit_code = 0]])

NextMain == StartStage \/ StageDone \/ StageFailed \/ StageNotFound \/ SuccessBanner

SpecMain == InitMain /\ [][NextMain]_vars

MainPoints == {"for", "subprocess", "banner", "exited"}

\* C26: the stages start in the listed order, each only after every earlier
\* one has ended with exit code 0; a stage that is missing or ends with a
\* non-zero code is the last one started and the pipeline exits with code 1;
\* the success banner is printed only after all 10 stages ended with code 0.
C26_Sequential ==
    pc \in MainPoints =>
        /\ Len(ret.started) <= _TOTAL
        /\ \A k \in DOMAIN ret.started : ret.started[k] = _PIPELINE[k]
        /\ Len(ret.ended) = Len(ret.started) - (IF pc = "subprocess" THEN 1 ELSE 0)
        /\ \A k \in DOMAIN ret.ended :
              ret.ended[k] # Exited(0)
                 => /\ k = Len(ret.started)
                    /\ pc = "exited"
                    /\ ret.exit_code = 1
                    /\ ~ret.banner
        /\ ret.banner =>
              /\ Len(ret.ended) = 10
              /\ \A k \in DOMAIN ret.ended : ret.ended[k] = Exited(0)

\* the fourth stage fails after three successes and the pipeline has exited
C26_Witness ==
    /\ pc = "exited"
    /\ Len(ret.started) = 4
    /\ ret.ended[3] = Exited(0)
    /\ ret.ended[4] = Exited(2)
    /\ ret.exit_code = 1

(***************************************************************************)
(* The per-security loops of the four stage runners and what each writes.  *)
(* A ticker's download is "ok", "raises" (any exception inside the try) or *)
(* "short" (an empty or too short price history).  A record is the dict    *)
(* the loop appends, with the keys it has; one metric column stands for    *)
(* the metrics of a stage.  ret is the loop index and the records so far,  *)
(* then the rows of the table the stage writes, whatever their order.      *)
(***************************************************************************)
MaxStage == 3

Stages == {"fundamentals", "deep_valuation", "technicals", "quant_risk"}

StageMetric(stage) ==
    CASE stage = "fundamentals"   -> "Sharpe_Ratio"
      [] stage = "deep_valuation" -> "Margin_of_Safety"
      [] stage = "technicals"     -> "SMA_50"
      [] stage = "quant_risk"     -> "VaR_95"

Record(ticker, col, v) == ("ticker" :> ticker) @@ (col :> v)

TickerOnly(ticker) == ("ticker" :> ticker)

\* what one pass of the for loop appends to records
TickerRecords(stage, ticker, how, v) ==
    LET col == StageMetric(stage)
    IN  CASE stage = "fundamentals" ->
               IF how = "raises" THEN <<TickerOnly(ticker)>>
               ELSE IF how = "short" THEN <<Record(ticker, col, NaN)>>
               ELSE <<Record(ticker, col, v)>>
          [] stage = "deep_valuation" ->
               IF how = "raises" THEN <<TickerOnly(ticker)>>
               ELSE <<Record(ticker, col, v)>>
          [] stage = "technicals" ->
               IF how = "ok" THEN <<Record(ticker, col, v)>> ELSE <<>>
          [] stage = "quant_risk" ->
               IF how = "ok" THEN <<Record(ticker, col, v)>>
               ELSE <<Record(ticker, col, NaN)>>

\* pd.DataFrame(records): the columns are the keys of all records, a key a
\* record lacks is NaN
Frame(records) ==
    LET keys == UNION {DOMAIN records[i] : i \in DOMAIN records}
    IN  [i \in DOMAIN records |->
            [c \in keys |-> IF c \in DOMAIN records[i] THEN records[i][c] ELSE NaN]]

\* df[numeric_cols].fillna(df[numeric_cols].median()) on the metric column
FillColumn(d, col) ==
    [i \in DOMAIN d |-> [d[i] EXCEPT ![col] = fillna(@, median(d, col))]]

\* the statements after the loop: the rows written; technicals returns
\* before writing when it has no record.  _score_universe takes a missing
\* column as rank 0.5, so records without the metric key are written too.
StageOutput(stage, records) ==
    LET col == StageMetric(stage)
        d   == Frame(records)
    IN  IF records = <<>>
        THEN [written |-> stage # "technicals", rows |-> {}]
        ELSE [written |-> TRUE,
              rows |-> IF col \in DOMAIN d[1]
                       THEN {FillColumn(d, col)[i] : i \in DOMAIN d}
                       ELSE {d[i] : i \in DOMAIN d}]

StageCalls ==
    UNION { [stage : Stages, tickers : {[i \in 1..n |-> i]},
             how : [1..n -> {"ok", "raises", "short"}]] : n \in 1..MaxStage }

\* the metric a successful download of a ticker gives
Computed(ticker) == 10 * ticker

InitStage ==
    /\ pc = "stage_loop"
    /\ call \in StageCalls
    /\ ret = [i |-> 1, records |-> <<>>]
    /\ df = <<>>
    /\ short_term = {}
    /\ medium_term = {}
    /\ long_term = {}
    /\ mt_tier = 0
    /\ lt_tier = 0
    /\ kelly = None

\* one pass of the for loop
ProcessTicker ==
    /\ pc = "stage_loop"
    /\ ret.i <= Len(call.tickers)
    /\ ret' = [i |-> ret.i + 1,
               records |-> ret.records
                           \o TickerRecords(call.stage, call.tickers[ret.i],
                                            call.how[ret.i],
                                            Computed(call.tickers[ret.i]))]
    /\ UNCHANGED <<pc, call, df, short_term, medium_term, long_term, mt_tier,
                   lt_tier, kelly>>

\* the end of the loop and the statements after it
FinishStage ==
    /\ pc = "stage_loop"
    /\ ret.i > Len(call.tickers)
    /\ ret' = StageOutput(call.stage, ret.records)
    /\ pc' = "stage_done"
    /\ UNCHANGED <<call, df, short_term, medium_term, long_term, mt_tier,
                   lt_tier, kelly>>

NextStage == ProcessTicker \/ FinishStage

SpecStage == InitStage /\ [][NextStage]_vars

\* C27 as stated: in every per-security stage loop a failure or a short
\* history of one security neither aborts the batch nor removes the
\* security: every ticker entering the stage is in the stage's output table
\* and the securities that did not fail keep their computed metrics.
C27_Original ==
    pc = "stage_done" =>
        /\ {r.ticker : r \in ret.rows} = {call.tickers[i] : i \in DOMAIN call.tickers}
        /\ \A r \in ret.rows :
              call.how[r.ticker] = "ok" => r[StageMetric(call.stage)] = Computed(r.ticker)

\* the same statement holds of the three stages other than technicals
OtherStagesKeepAll ==
    (pc = "stage_done" /\ call.stage # "technicals") =>
        /\ ret.written
        /\ {r.ticker : r \in ret.rows} = {call.tickers[i] : i \in DOMAIN call.tickers}
        /\ \A r \in ret.rows :
              call.how[r.ticker] = "ok" => r[StageMetric(call.stage)] = Computed(r.ticker)

(***************************************************************************)
(* Claims about the pools the buckets of build_portfolios draw from.       *)
(***************************************************************************)
\* a row of pool p is left once the tickers excl are taken
OwnPoolLeft(p, excl) ==
    \E i \in DOMAIN df : df[i]._pool = p /\ df[i].ticker \notin excl

PoolOf(bucket) == {df[i]._pool : i \in bucket}

DrawsFrom(bucket, p, excl) ==
    /\ \A i \in bucket : df[i].ticker \notin excl
    /\ OwnPoolLeft(p, excl) => PoolOf(bucket) \subseteq {p}
    /\ (~OwnPoolLeft(p, excl) /\ pc = "done" /\ Tickers(df) \ excl # {}) => bucket # {}

C29_Original ==
    /\ Cardinality(tolist(df, short_term)) = Cardinality(short_term)
    /\ Cardinality(tolist(df, medium_term)) = Cardinality(medium_term)
    /\ Cardinality(tolist(df, long_term)) = Cardinality(long_term)

\* the tables of the specification are unique on (ticker, _pool)
UniqueOnTickerPool ==
    \A i, j \in DOMAIN df :
        (df[i].ticker = df[j].ticker /\ df[i]._pool = df[j]._pool) => i = j

(***************************************************************************)
(* Claims about the Kelly sizing of the long bucket.                       *)
(***************************************************************************)
\* 25 + (score - 50) / 4 percent, floored at 1.0, to the nearest tenth
LongKellyBelow50(score) ==
    LET fortieths == 4 * 250 + 10 * (score - 50)
    IN  IF fortieths < 4 * 10 THEN 10 ELSE RoundHalfEven(fortieths, 4)

\* C30: with the long-bucket triple (0.65, 1.00, 0.20) the base half-Kelly
\* fraction is the 25% cap, so Kelly_Position_Pct is 25.0 for every security
\* whose Deep_Value_Score is at least 50 or missing, and 25 + (score - 50)/4
\* floored at 1.0, to the tenth the column is rounded to, for a score below
\* 50: an upward adjustment never changes a long-bucket allocation.
C30_LongBucketCapped ==
    (pc = "returned" /\ call.fn = "_add_kelly" /\ call.portfolio_type = "Long Terme") =>
        /\ _kelly_criterion(65, 100, 20) = Returned(250)
        /\ \A i \in DOMAIN ret :
              LET score == call.df[i].Deep_Value_Score
              IN  ret[i] = IF isna(score) \/ score >= 50 THEN 250
                           ELSE LongKellyBelow50(score)

\* a long-bucket security with the best Deep_Value_Score, its quant score
\* missing, allocated the capped 25.0
C30_Witness ==
    /\ pc = "returned"
    /\ call.fn = "_add_kelly"
    /\ call.portfolio_type = "Long Terme"
    /\ call.df[1].Deep_Value_Score = 100
    /\ isna(call.df[1].Quant_Risk_Score)
    /\ ret[1] = 250

\* a score just below 50 gives 24.75, written as 24.8
LongBelow50Rounded ==
    (/\ pc = "returned" /\ call.fn = "_add_kelly"
     /\ call.portfolio_type = "Long Terme"
     /\ call.df[1].Deep_Value_Score = 49) => ret[1] = 248

====
